---------------------------- MODULE Spec2Model ----------------------------
(***************************************************************************)
(* GlobalNewsPulse: the article store (MemStorage / DatabaseStorage), the  *)
(* ingestion paths that write to it (seed pipeline, batch endpoint,        *)
(* proxy-news background ingestion, proxy-newsroom), the listing read path *)
(* and the background fetch scheduler.                                     *)
(*                                                                         *)
(* Strings are sequences of tokens.  Country tags are sequences of         *)
(* characters, so that toUpperCase and exact / prefix comparison are       *)
(* computed and not assumed.  An absent value (undefined / null) is the    *)
(* one-token text NULL, the empty string is << >>.                         *)
(***************************************************************************)
EXTENDS Integers, Sequences, FiniteSets, TLC

VARIABLES
    backend,      \* "mem" or "db": which IStorage `storage` is (storage.ts:1144)
    articles,     \* the articles Map / table, in insertion order
    nextId,       \* MemStorage.currentArticleId / the serial of articles.id
    clock,        \* Date.now() / now() of the store, in abstract ticks
    run,          \* per ingestion run: kind, number of raw articles left, position
    last,         \* the item processed most recently (history)
    faults,       \* number of store failures injected so far
    items,        \* number of raw articles taken up for processing so far
    sched,        \* background-fetch module state and timer position
    fetches,      \* partition arguments of the News API fetches issued, in order
    req,          \* one GET /api/articles request and its promises / timers
    users,        \* the users Map / table, in insertion order
    auth          \* history of the auth routes: time advances made, tokens
                  \* drawn, per email the password last set by a registration
                  \* or a successful reset, the tokens that verified, that a
                  \* resend replaced, that reset a password, that a later
                  \* request replaced

vars == <<backend, articles, nextId, clock, run, last, faults, items,
          sched, fetches, req, users, auth>>

storeVars == <<backend, articles, nextId, clock, run, last, faults, items,
               users, auth>>
schedVars == <<sched, fetches>>

-----------------------------------------------------------------------------
(* Bounds of the model *)

MaxItems == 2
MaxBatch == 2
MaxFaults == 1
MaxPage == 4
MaxPageSize == 3

-----------------------------------------------------------------------------
(* Text *)

NULL == <<"<null>">>

\* JavaScript truthiness of a string-or-undefined value: undefined, null and ""
\* are falsy.
Falsy(t) == t = NULL \/ t = << >>

\* a || b
OrElse(a, b) == IF Falsy(a) THEN b ELSE a

Lower == <<"a","b","c","d","e","f","g","h","i","j","k","l","m",
           "n","o","p","q","r","s","t","u","v","w","x","y","z">>
Upper == <<"A","B","C","D","E","F","G","H","I","J","K","L","M",
           "N","O","P","Q","R","S","T","U","V","W","X","Y","Z">>

UpperChar(c) ==
    IF \E i \in 1..Len(Lower) : Lower[i] = c
    THEN Upper[CHOOSE i \in 1..Len(Lower) : Lower[i] = c]
    ELSE c

\* String.prototype.toUpperCase
ToUpperCase(s) == [i \in 1..Len(s) |-> UpperChar(s[i])]

GLOBAL == <<"G","L","O","B","A","L">>
TRENDING == <<"-","T","R","E","N","D","I","N","G">>
GLOBAL_TRENDING == GLOBAL \o TRENDING
US == <<"U","S">>
GB == <<"G","B">>

Digits == {"0","1","2","3","4","5","6","7","8","9"}
Whitespace == {" "}

\* content.replace(/\[\+\d+ chars\]$/, ''): the marker is "[+", one or more
\* digits, a blank and "chars]", and it must end the string.
MarkerStarts(s) ==
    {i \in 1..Len(s) :
        /\ Len(s) >= i + 3
        /\ s[i] = "[+"
        /\ s[Len(s)] = "chars]"
        /\ s[Len(s) - 1] = " "
        /\ \A j \in (i + 1)..(Len(s) - 2) : s[j] \in Digits}

StripMarker(s) ==
    IF MarkerStarts(s) = {} THEN s
    ELSE SubSeq(s, 1, (CHOOSE i \in MarkerStarts(s) : TRUE) - 1)

\* String.prototype.trim
RECURSIVE TrimLeft(_)
TrimLeft(s) ==
    IF s # << >> /\ Head(s) \in Whitespace THEN TrimLeft(Tail(s)) ELSE s

RECURSIVE TrimRight(_)
TrimRight(s) ==
    IF s # << >> /\ s[Len(s)] \in Whitespace
    THEN TrimRight(SubSeq(s, 1, Len(s) - 1)) ELSE s

Trim(s) == TrimLeft(TrimRight(s))

\* A cleanup that trims but leaves the marker in place.
CleanContentKeepsMarker(content) == Trim(content)

CleanContent(content) == Trim(StripMarker(content))

\* decodeHtmlEntities, token by token: the named entities of its table.
DecodeToken(t) ==
    CASE t = "&quot;" -> "\""
      [] t = "&apos;" -> "'"
      [] t = "&#039;" -> "'"
      [] t = "&lt;"   -> "<"
      [] t = "&gt;"   -> ">"
      [] t = "&amp;"  -> "&"
      [] t = "&nbsp;" -> " "
      [] OTHER        -> t

decodeHtmlEntities(text) ==
    IF Falsy(text) THEN << >> ELSE [i \in 1..Len(text) |-> DecodeToken(text[i])]

\* JSON.stringify(rawArticle): never empty, determined by the raw article.
Stringify(raw) ==
    <<"{">> \o raw.title \o <<",">> \o raw.url \o <<",">> \o raw.description
            \o <<",">> \o raw.content \o <<"}">>

-----------------------------------------------------------------------------
(* The article store *)

Min(a, b) == IF a < b THEN a ELSE b
Max(a, b) == IF a > b THEN a ELSE b

\* Math.ceil(a / b) for a >= 0, b > 0
Ceil(a, b) == (a + b - 1) \div b

\* Array.prototype.slice(from, to) on a 0-based array, as a 1-based sequence
\* A slice that takes one element too many.
SliceOneMore(s, from, to) == SubSeq(s, from + 1, Min(to + 1, Len(s)))

Slice(s, from, to) == SubSeq(s, from + 1, Min(to, Len(s)))

Indexes(store, P(_)) == {i \in 1..Len(store) : P(store[i])}

Count(store, P(_)) == Cardinality(Indexes(store, P))

\* MemStorage.initializePlaceholderData: ten placeholder articles are put in
\* the Map under the keys 1..10; currentArticleId is left at 1.
createPlaceholderArticle(id, country, trending) ==
    [id |-> id,
     title |-> <<"placeholder-title", ToString(id)>>,
     summary |-> <<"placeholder-summary", ToString(id)>>,
     aiEnhancedContent |-> <<"<p>", "placeholder-summary", ToString(id), "</p>">>,
     country |-> IF trending THEN country \o TRENDING ELSE country,
     category |-> <<"general">>,
     sourceUrl |-> <<"https://example.com/articles/", ToString(id)>>,
     sourceApi |-> <<"PlaceholderAPI">>,
     originalContent |-> <<"Placeholder content for development">>,
     createdAt |-> 0]

PlaceholderData ==
    << createPlaceholderArticle(1, GLOBAL, FALSE),
       createPlaceholderArticle(2, GLOBAL, FALSE),
       createPlaceholderArticle(3, GLOBAL, TRUE),
       createPlaceholderArticle(4, US, FALSE),
       createPlaceholderArticle(5, US, TRUE),
       createPlaceholderArticle(6, GB, FALSE),
       createPlaceholderArticle(7, <<"J","P">>, FALSE),
       createPlaceholderArticle(8, <<"I","N">>, TRUE),
       createPlaceholderArticle(9, <<"D","E">>, FALSE),
       createPlaceholderArticle(10, <<"B","R">>, FALSE) >>

\* Map.prototype.set: an existing key keeps its place, a new key goes last.
MapSet(store, article) ==
    IF \E i \in 1..Len(store) : store[i].id = article.id
    THEN [i \in 1..Len(store) |->
            IF store[i].id = article.id THEN article ELSE store[i]]
    ELSE Append(store, article)

\* MemStorage.createArticle: no validation; aiEnhancedContent starts null and
\* a falsy sourceUrl becomes null.  The id is currentArticleId++.
MemCreateArticle(store, id, now, ins) ==
    LET article == [id |-> id,
                    title |-> ins.title,
                    summary |-> ins.summary,
                    aiEnhancedContent |-> NULL,
                    country |-> ins.country,
                    category |-> ins.category,
                    sourceUrl |-> OrElse(ins.sourceUrl, NULL),
                    sourceApi |-> ins.sourceApi,
                    originalContent |-> ins.originalContent,
                    createdAt |-> now]
    IN [ok |-> TRUE, store |-> MapSet(store, article), article |-> article]

\* The NOT NULL columns of the articles table that an insert must supply.
NotNullOk(ins) ==
    /\ ins.title # NULL
    /\ ins.originalContent # NULL
    /\ ins.summary # NULL
    /\ ins.country # NULL
    /\ ins.category # NULL
    /\ ins.sourceApi # NULL

\* DatabaseStorage.createArticle: insert ... returning; the insert is rejected
\* when a NOT NULL column is missing.  id is the serial, created_at now().
DbCreateArticle(store, id, now, ins) ==
    LET article == [id |-> id,
                    title |-> ins.title,
                    summary |-> ins.summary,
                    aiEnhancedContent |-> NULL,
                    country |-> ins.country,
                    category |-> ins.category,
                    sourceUrl |-> ins.sourceUrl,
                    sourceApi |-> ins.sourceApi,
                    originalContent |-> ins.originalContent,
                    createdAt |-> now]
    IN IF NotNullOk(ins)
       THEN [ok |-> TRUE, store |-> Append(store, article), article |-> article]
       ELSE [ok |-> FALSE, store |-> store, article |-> article]

createArticle(be, store, id, now, ins) ==
    IF be = "mem" THEN MemCreateArticle(store, id, now, ins)
    ELSE DbCreateArticle(store, id, now, ins)

\* getArticleByUrl: exact match on sourceUrl (both implementations).
getArticleByUrl(store, url) ==
    \E i \in 1..Len(store) : store[i].sourceUrl = url

\* db.select().from(articles).where(eq(articles.title, title))
SelectByTitle(store, title) ==
    SelectSeq(store, LAMBDA a : a.title = title)

\* MemStorage.updateArticle: throws when the id is absent, else merges.
MemUpdateArticle(store, id, content) ==
    IF \E i \in 1..Len(store) : store[i].id = id
    THEN [ok |-> TRUE,
          store |-> [i \in 1..Len(store) |->
                        IF store[i].id = id
                        THEN [store[i] EXCEPT !.aiEnhancedContent = content]
                        ELSE store[i]]]
    ELSE [ok |-> FALSE, store |-> store]

\* An update that writes the content into the title as well.
UpdateAlsoTitle(store, id, content) ==
    [ok |-> TRUE,
     store |-> [i \in 1..Len(store) |->
                    IF store[i].id = id
                    THEN [store[i] EXCEPT !.aiEnhancedContent = content,
                                          !.title = content]
                    ELSE store[i]]]

\* DatabaseStorage.updateArticle: update ... where id = ... returning; no row
\* matching is not an error, the method then returns undefined.  An update
\* whose only value is undefined has nothing to set, and the query rejects.
DbUpdateArticle(store, id, content) ==
    IF content = NULL
    THEN [ok |-> FALSE, store |-> store]
    ELSE [ok |-> TRUE,
          store |-> [i \in 1..Len(store) |->
                        IF store[i].id = id
                        THEN [store[i] EXCEPT !.aiEnhancedContent = content]
                        ELSE store[i]]]

updateArticle(be, store, id, content) ==
    IF be = "mem" THEN MemUpdateArticle(store, id, content)
    ELSE DbUpdateArticle(store, id, content)

-----------------------------------------------------------------------------
(* getArticles *)

\* MemStorage.getArticles, the country filter: both sides upper-cased.
MemMatches(a, country) ==
    IF Falsy(country) THEN TRUE
    ELSE IF ToUpperCase(country) = GLOBAL
         THEN \/ ToUpperCase(a.country) = GLOBAL
              \/ ToUpperCase(a.country) = GLOBAL_TRENDING
         ELSE ToUpperCase(a.country) = ToUpperCase(country)

\* DatabaseStorage.getArticles, the where clause: eq() on the stored value.
DbMatches(a, country) ==
    IF Falsy(country) THEN TRUE
    ELSE IF country = GLOBAL
         THEN a.country = GLOBAL \/ a.country = GLOBAL_TRENDING
         ELSE a.country = country

Matches(be, a, country) ==
    IF be = "mem" THEN MemMatches(a, country) ELSE DbMatches(a, country)

\* Array.prototype.sort with (a, b) => b.createdAt - a.createdAt: a stable
\* sort, newest first; equal createdAt keep their Map order.  An element
\* comes after the newer ones and after the equally old ones before it.
SortDesc(s) ==
    LET ahead == [i \in 1..Len(s) |->
                    Cardinality({j \in 1..Len(s) :
                        \/ s[j].createdAt > s[i].createdAt
                        \/ s[j].createdAt = s[i].createdAt /\ j < i})]
    IN [k \in 1..Len(s) |-> s[CHOOSE i \in 1..Len(s) : ahead[i] = k - 1]]

MemGetArticles(store, country, page, pageSize) ==
    LET offset == (page - 1) * pageSize
        filteredArticles == SortDesc(SelectSeq(store, LAMBDA a : MemMatches(a, country)))
    IN [articles |-> Slice(filteredArticles, offset, offset + pageSize),
        totalCount |-> Len(filteredArticles)]

\* ORDER BY created_at DESC: rows with equal created_at come in an order the
\* query does not fix, so every ordering that is descending is possible.
Without(rows, i) == SubSeq(rows, 1, i - 1) \o SubSeq(rows, i + 1, Len(rows))

Newest(rows) ==
    {i \in 1..Len(rows) : \A j \in 1..Len(rows) : rows[i].createdAt >= rows[j].createdAt}

RECURSIVE DbOrders(_)
DbOrders(rows) ==
    IF rows = << >> THEN {<< >>}
    ELSE UNION {{<<rows[i]>> \o o : o \in DbOrders(Without(rows, i))} : i \in Newest(rows)}

\* DatabaseStorage.getArticles when no query times out: the possible results.
DbGetArticles(store, country, page, pageSize) ==
    LET offset == (page - 1) * pageSize
        rows == SelectSeq(store, LAMBDA a : DbMatches(a, country))
    IN {[articles |-> Slice(o, offset, offset + pageSize),
         totalCount |-> Len(rows)] : o \in DbOrders(rows)}

\* storage.getArticles: the set of results the call can return.
getArticles(be, store, country, page, pageSize) ==
    IF be = "mem" THEN {MemGetArticles(store, country, page, pageSize)}
    ELSE DbGetArticles(store, country, page, pageSize)

\* GET /api/articles, the response built from a getArticles result.
ArticlesResponse(result, page, pageSize) ==
    [articles |-> [i \in 1..Len(result.articles) |->
                    [result.articles[i] EXCEPT
                        !.title = decodeHtmlEntities(@),
                        !.summary = decodeHtmlEntities(@),
                        !.country = IF result.articles[i].sourceApi = <<"Newsroom API">>
                                    THEN GLOBAL ELSE @]],
     pagination |-> [page |-> page,
                     pageSize |-> pageSize,
                     totalCount |-> result.totalCount,
                     totalPages |-> Ceil(result.totalCount, pageSize)]]

-----------------------------------------------------------------------------
(* Inputs: raw articles as the upstream fetch service returns them *)

Raw(title, url, description, content, country) ==
    [title |-> title, url |-> url, description |-> description,
     content |-> content, country |-> country]

RawArticles ==
    { Raw(<<"T1">>, <<"u1">>, <<"d1">>, <<"x", " ", "[+", "9", " ", "chars]">>, NULL),
      Raw(<<"T1">>, <<"u2">>, NULL, <<" ", "[+", "9", " ", "chars]", "x">>, <<"u","s">>),
      Raw(<<"T1">>, NULL, <<"d1">>, NULL, <<"g","l","o","b","a","l">>),
      Raw(<<"T2", "&amp;">>, NULL, NULL, NULL, US \o TRENDING) }

\* The length of a non-empty batch of raw articles.  Which raw article comes
\* next is drawn when the loop reaches it.
BatchSizes == 1..MaxBatch

\* The country argument of processAndStoreArticles: 'US' for the category
\* sweep, country.toUpperCase() for the country sweep, 'GLOBAL' for trending.
SeedCountries == {US, GLOBAL}

\* The country query parameter of GET /api/proxy-news.
ProxyCountries == {NULL, <<"g","b">>}

\* What generateArticleContent can do: throw, return an object without the
\* three fields (JSON.parse of "{}"), return an object that lacks
\* articleContent only, or return the three fields.
Gen(threw, enhancedTitle, articleContent, summary) ==
    [threw |-> threw, enhancedTitle |-> enhancedTitle,
     articleContent |-> articleContent, summary |-> summary]

GenThrow == Gen(TRUE, NULL, NULL, NULL)
GenEmpty == Gen(FALSE, NULL, NULL, NULL)
GenOk == Gen(FALSE, <<"E1">>, <<"enhanced-content">>, <<"enhanced-summary">>)

GenNoContent == Gen(FALSE, <<"E1">>, NULL, <<"enhanced-summary">>)

Gens == {GenThrow, GenEmpty, GenNoContent, GenOk}

EnhKind(g) ==
    IF g.threw THEN "throw"
    ELSE IF g = GenEmpty THEN "empty"
    ELSE IF g = GenNoContent THEN "partial"
    ELSE "ok"

-----------------------------------------------------------------------------
(* Ingestion runs *)

\* Two ingestion runs can exist; the sequential specification uses one.
Workers == {"w1", "w2"}
SeqWorkers == {"w1"}

\* The history of one processed item.  before: the table when its processing
\* started.  again: the item processed right before it was the same raw
\* article on the same path, with no store failure in either; first* then
\* tell what that earlier processing found and did.
Entry(kind, raw, country, size) ==
    [kind |-> kind, raw |-> raw, country |-> country, size |-> size,
     dup |-> FALSE, enh |-> "none", created |-> 0, updated |-> 0,
     fault |-> FALSE, id |-> 0, before |-> << >>,
     again |-> FALSE, firstCreated |-> 0, firstDup |-> FALSE,
     firstBefore |-> << >>]

NoRaw == Raw(NULL, NULL, NULL, NULL, NULL)
NoEntry == Entry("none", NoRaw, NULL, 0)

Idle ==
    [kind |-> "idle", pc |-> "idle", left |-> 0, size |-> 0,
     country |-> NULL, gen |-> GenThrow, item |-> NoEntry]

UrlCount(store, url) == Count(store, LAMBDA a : a.sourceUrl = url)
TitleCount(store, title) == Count(store, LAMBDA a : a.title = title)

\* The bookkeeping of an item at the moment its processing starts.
Begin(kind, raw, country, size) ==
    [Entry(kind, raw, country, size) EXCEPT !.before = articles]

AllIdle == \A w \in Workers : run[w].kind = "idle"

\* Whether a store call may be made to fail here.
Outcomes == IF faults < MaxFaults THEN {TRUE, FALSE} ELSE {TRUE}

\* The timestamps the store can give the next row.
Nows == {clock, clock + 1}

\* The history after `item` has been processed.
Record(item) ==
    IF /\ last.kind = item.kind /\ last.raw = item.raw
       /\ last.country = item.country /\ last.size = item.size
       /\ ~last.fault /\ ~item.fault
    THEN [item EXCEPT !.again = TRUE,
                      !.firstCreated = last.created,
                      !.firstDup = last.dup,
                      !.firstBefore = last.before]
    ELSE item

\* The end of one item: the history moves on, the run goes to the next item.
Complete(w, item) ==
    /\ last' = Record(item)
    /\ run' = [run EXCEPT ![w] =
                IF run[w].left = 0 THEN Idle
                ELSE [@ EXCEPT !.pc = "next", !.item = NoEntry]]

\* The handler gives up on the remaining items.
Abort(w, item) ==
    /\ last' = Record(item)
    /\ run' = [run EXCEPT ![w] = Idle]

-----------------------------------------------------------------------------
(* processAndStoreArticles (seed-articles.ts), one step per awaited call.   *)
(* It is reached only from seedArticles, which index.ts starts only when    *)
(* DATABASE_URL is set, so `storage` is the DatabaseStorage and the direct  *)
(* db queries read the same table.                                         *)

\* const title = rawArticle.title || `News about ${topic || category}`
SeedTitle(raw) == OrElse(raw.title, <<"News about ", "general">>)

\* The row of the enhanced path (seed-articles.ts:276).
SeedEnhancedInsert(raw, country, gen) ==
    [title |-> gen.enhancedTitle,
     originalContent |-> Stringify(raw),
     summary |-> gen.summary,
     country |-> country,
     category |-> <<"general">>,
     sourceUrl |-> OrElse(raw.url, NULL),
     sourceApi |-> <<"NewsAPI">>]

\* The row of the fallback path (seed-articles.ts:308).
SeedBasicInsert(raw, country) ==
    [title |-> SeedTitle(raw),
     originalContent |-> Stringify(raw),
     summary |-> OrElse(raw.description, <<"No summary available">>),
     country |-> country,
     category |-> <<"general">>,
     sourceUrl |-> OrElse(raw.url, NULL),
     sourceApi |-> <<"NewsAPI">>]

\* const content = rawArticle.content || rawArticle.description || "..."
\* const cleanContent = content.replace(/\[\+\d+ chars\]$/, '').trim()
SeedCleanContent(raw) ==
    CleanContent(OrElse(raw.content,
                 OrElse(raw.description, <<"Article content unavailable">>)))

\* The dedup gate of the seed pipeline, as one decision: the URL lookup when
\* the raw article has a url, then the title lookup.
\* A gate whose URL lookup never finds anything.
SeedUrlNeverFound(store, raw) == FALSE

SeedUrlExists(store, raw) ==
    ~Falsy(raw.url) /\ getArticleByUrl(store, raw.url)

\* A gate whose title lookup never finds anything.
SeedTitleNeverFound(store, raw) == FALSE

SeedTitleExists(store, raw) ==
    Len(SelectByTitle(store, SeedTitle(raw))) > 0

SeedStart(w, n, country) ==
    /\ backend = "db"
    /\ run[w].kind = "idle"
    /\ items < MaxItems
    /\ run' = [run EXCEPT ![w] =
                [Idle EXCEPT !.kind = "seed", !.pc = "next", !.left = n,
                             !.size = n, !.country = country]]
    /\ UNCHANGED <<sched, fetches, req, users, auth, backend, articles, nextId, clock, last, faults, items>>

\* for (const rawArticle of rawArticles): take the next item.
SeedNext(w) ==
    /\ run[w].kind = "seed" /\ run[w].pc = "next"
    /\ run[w].left > 0
    /\ items < MaxItems
    /\ items' = items + 1
    /\ \E raw \in RawArticles :
        run' = [run EXCEPT ![w] =
                 [@ EXCEPT !.pc = IF Falsy(raw.url) THEN "title" ELSE "url",
                           !.item = Begin("seed", raw, run[w].country, run[w].size),
                           !.left = @ - 1]]
    /\ UNCHANGED <<sched, fetches, req, users, auth, backend, articles, nextId, clock, last, faults>>

\* await storage.getArticleByUrl(rawArticle.url)
SeedCheckUrl(w) ==
    /\ run[w].kind = "seed" /\ run[w].pc = "url"
    /\ IF SeedUrlExists(articles, run[w].item.raw)
       THEN Complete(w, [run[w].item EXCEPT !.dup = TRUE])
       ELSE /\ run' = [run EXCEPT ![w].pc = "title"]
            /\ UNCHANGED <<last>>
    /\ UNCHANGED <<sched, fetches, req, users, auth, backend, articles, nextId, clock, faults, items>>

\* await db.select().from(articles).where(eq(articles.title, title))
SeedCheckTitle(w) ==
    /\ run[w].kind = "seed" /\ run[w].pc = "title"
    /\ IF SeedTitleExists(articles, run[w].item.raw)
       THEN Complete(w, [run[w].item EXCEPT !.dup = TRUE])
       ELSE /\ run' = [run EXCEPT ![w].pc = "enhance"]
            /\ UNCHANGED <<last>>
    /\ UNCHANGED <<sched, fetches, req, users, auth, backend, articles, nextId, clock, faults, items>>

\* await generateArticleContent(...); the variants and the analysis that
\* follow are caught on failure and change nothing that is stored.
SeedEnhance(w) ==
    /\ run[w].kind = "seed" /\ run[w].pc = "enhance"
    /\ \E g \in Gens :
        run' = [run EXCEPT ![w] =
                 [@ EXCEPT !.gen = g,
                           !.item.enh = EnhKind(g),
                           !.pc = IF g.threw THEN "basicCreate" ELSE "create"]]
    /\ UNCHANGED <<sched, fetches, req, users, auth, backend, articles, nextId, clock, last, faults, items>>

\* await storage.createArticle({title: generated.enhancedTitle, ...}); a
\* failure goes to catch (aiError), the fallback path.
SeedCreate(w) ==
    /\ run[w].kind = "seed" /\ run[w].pc = "create"
    /\ \E ok \in Outcomes, now \in Nows :
        LET r == createArticle(backend, articles, nextId, now,
                    SeedEnhancedInsert(run[w].item.raw, run[w].country, run[w].gen))
        IN IF ok /\ r.ok
           THEN /\ articles' = r.store
                /\ nextId' = nextId + 1
                /\ clock' = now
                /\ faults' = faults
                /\ run' = [run EXCEPT ![w] =
                            [@ EXCEPT !.pc = "update",
                                      !.item.created = @ + 1,
                                      !.item.id = r.article.id]]
           ELSE /\ faults' = IF ok THEN faults ELSE faults + 1
                /\ run' = [run EXCEPT ![w] =
                            [@ EXCEPT !.pc = "basicCreate",
                                      !.item.fault = @ \/ ~ok]]
                /\ UNCHANGED <<articles, nextId, clock>>
    /\ UNCHANGED <<sched, fetches, req, users, auth, backend, last, items>>

\* await storage.updateArticle(newArticle.id, {aiEnhancedContent: ...}); a
\* failure goes to the same catch (aiError).
SeedUpdate(w) ==
    /\ run[w].kind = "seed" /\ run[w].pc = "update"
    /\ \E ok \in Outcomes :
        LET r == updateArticle(backend, articles, run[w].item.id,
                               run[w].gen.articleContent)
        IN IF ok /\ r.ok
           THEN /\ articles' = r.store
                /\ faults' = faults
                /\ Complete(w, [run[w].item EXCEPT !.updated = @ + 1])
           ELSE /\ faults' = IF ok THEN faults ELSE faults + 1
                /\ run' = [run EXCEPT ![w] =
                            [@ EXCEPT !.pc = "basicCreate",
                                      !.item.fault = @ \/ ~ok]]
                /\ UNCHANGED <<articles, last>>
    /\ UNCHANGED <<sched, fetches, req, users, auth, backend, nextId, clock, items>>

\* The fallback: await storage.createArticle({title: title, ...}); a failure
\* is caught (basicError) and the item is dropped.
SeedBasicCreate(w) ==
    /\ run[w].kind = "seed" /\ run[w].pc = "basicCreate"
    /\ \E ok \in Outcomes, now \in Nows :
        LET r == createArticle(backend, articles, nextId, now,
                    SeedBasicInsert(run[w].item.raw, run[w].country))
        IN IF ok /\ r.ok
           THEN /\ articles' = r.store
                /\ nextId' = nextId + 1
                /\ clock' = now
                /\ faults' = faults
                /\ run' = [run EXCEPT ![w] =
                            [@ EXCEPT !.pc = "basicUpdate",
                                      !.item.created = @ + 1,
                                      !.item.id = r.article.id]]
                /\ UNCHANGED <<last>>
           ELSE /\ faults' = IF ok THEN faults ELSE faults + 1
                /\ Complete(w, [run[w].item EXCEPT !.fault = @ \/ ~ok])
                /\ UNCHANGED <<articles, nextId, clock>>
    /\ UNCHANGED <<sched, fetches, req, users, auth, backend, items>>

\* await storage.updateArticle(basicArticle.id, {aiEnhancedContent: cleanContent})
SeedBasicUpdate(w) ==
    /\ run[w].kind = "seed" /\ run[w].pc = "basicUpdate"
    /\ \E ok \in Outcomes :
        LET r == updateArticle(backend, articles, run[w].item.id,
                               SeedCleanContent(run[w].item.raw))
        IN IF ok /\ r.ok
           THEN /\ articles' = r.store
                /\ faults' = faults
                /\ Complete(w, [run[w].item EXCEPT !.updated = @ + 1])
           ELSE /\ faults' = IF ok THEN faults ELSE faults + 1
                /\ Complete(w, [run[w].item EXCEPT !.fault = @ \/ ~ok])
                /\ UNCHANGED articles
    /\ UNCHANGED <<sched, fetches, req, users, auth, backend, nextId, clock, items>>

-----------------------------------------------------------------------------
(* POST /api/news/batch (routes): one step per article of the batch.  There *)
(* is no dedup lookup, and no try/catch inside the loop: an error ends the  *)
(* handler with status 400.                                                *)

BatchInsert(raw, sourceApi) ==
    [title |-> raw.title,
     originalContent |-> OrElse(raw.content, OrElse(raw.description, << >>)),
     summary |-> OrElse(raw.description, << >>),
     country |-> OrElse(raw.country, GLOBAL),
     category |-> <<"general">>,
     sourceUrl |-> OrElse(raw.url, << >>),
     sourceApi |-> sourceApi]

BatchStart(w, n) ==
    /\ run[w].kind = "idle"
    /\ items < MaxItems
    /\ run' = [run EXCEPT ![w] =
                [Idle EXCEPT !.kind = "batch", !.pc = "next", !.left = n,
                             !.size = n, !.country = <<"NewsAPI">>]]
    /\ UNCHANGED <<sched, fetches, req, users, auth, backend, articles, nextId, clock, last, faults, items>>

BatchItem(w) ==
    /\ run[w].kind = "batch" /\ run[w].pc = "next"
    /\ run[w].left > 0
    /\ items < MaxItems
    /\ items' = items + 1
    /\ \E raw \in RawArticles, g \in Gens, now \in Nows :
        LET item == [Begin("batch", raw, run[w].country, run[w].size)
                        EXCEPT !.enh = EnhKind(g)]
            c == createArticle(backend, articles, nextId, now,
                               BatchInsert(raw, run[w].country))
            u == updateArticle(backend, c.store, c.article.id, g.articleContent)
            rest == [run EXCEPT ![w].left = @ - 1]
        IN IF g.threw \/ ~c.ok
           THEN /\ Abort(w, item)
                /\ UNCHANGED <<articles, nextId, clock>>
           ELSE IF ~u.ok
           THEN /\ articles' = c.store
                /\ nextId' = nextId + 1
                /\ clock' = now
                /\ Abort(w, [item EXCEPT !.created = 1, !.id = c.article.id])
           ELSE /\ articles' = u.store
                /\ nextId' = nextId + 1
                /\ clock' = now
                /\ last' = Record([item EXCEPT !.created = 1, !.updated = 1,
                                               !.id = c.article.id])
                /\ run' = [rest EXCEPT ![w] =
                            IF rest[w].left = 0 THEN Idle ELSE @]
    /\ UNCHANGED <<sched, fetches, req, users, auth, backend, faults>>

-----------------------------------------------------------------------------
(* GET /api/proxy-news (routes): the background ingestion that follows the  *)
(* response; dedup by URL only, per-item try/catch, no update.              *)

ProxyInsert(raw, country) ==
    [title |-> raw.title,
     originalContent |-> OrElse(raw.content, OrElse(raw.description, << >>)),
     summary |-> OrElse(raw.description, << >>),
     country |-> OrElse(raw.country, OrElse(country, GLOBAL)),
     category |-> <<"general">>,
     sourceUrl |-> OrElse(raw.url, << >>),
     sourceApi |-> <<"News API">>]

ProxyStart(w, n, country) ==
    /\ run[w].kind = "idle"
    /\ items < MaxItems
    /\ run' = [run EXCEPT ![w] =
                [Idle EXCEPT !.kind = "proxy", !.pc = "next", !.left = n,
                             !.size = n, !.country = country]]
    /\ UNCHANGED <<sched, fetches, req, users, auth, backend, articles, nextId, clock, last, faults, items>>

ProxyItem(w) ==
    /\ run[w].kind = "proxy" /\ run[w].pc = "next"
    /\ run[w].left > 0
    /\ items < MaxItems
    /\ items' = items + 1
    /\ \E raw \in RawArticles, g \in Gens, now \in Nows :
        LET item == Begin("proxy", raw, run[w].country, run[w].size)
            c == createArticle(backend, articles, nextId, now,
                               ProxyInsert(raw, run[w].country))
            popped == [run EXCEPT ![w].left = @ - 1]
            done == [popped EXCEPT ![w] =
                        IF popped[w].left = 0 THEN Idle ELSE @]
        IN /\ run' = done
           /\ IF ~Falsy(raw.url) /\ getArticleByUrl(articles, raw.url)
              THEN /\ last' = Record([item EXCEPT !.dup = TRUE])
                   /\ UNCHANGED <<articles, nextId, clock>>
              ELSE IF g.threw \/ ~c.ok
              THEN /\ last' = Record([item EXCEPT !.enh = EnhKind(g)])
                   /\ UNCHANGED <<articles, nextId, clock>>
              ELSE /\ last' = Record([item EXCEPT !.enh = EnhKind(g), !.created = 1,
                                           !.id = c.article.id])
                   /\ articles' = c.store
                   /\ nextId' = nextId + 1
                   /\ clock' = now
    /\ UNCHANGED <<sched, fetches, req, users, auth, backend, faults>>

-----------------------------------------------------------------------------
(* GET /api/proxy-newsroom (routes): stores the fetched articles when the   *)
(* table holds no Newsroom article yet.  Its lookups go to db directly.     *)

NewsroomTitle(raw) == OrElse(raw.title, <<"Untitled Article">>)

NewsroomContent(raw) ==
    decodeHtmlEntities(OrElse(raw.content,
                       OrElse(raw.description, <<"Article content unavailable">>)))

NewsroomInsert(raw) ==
    [title |-> decodeHtmlEntities(NewsroomTitle(raw)),
     originalContent |-> decodeHtmlEntities(OrElse(raw.description,
                            OrElse(NewsroomContent(raw), <<"No original content">>))),
     summary |-> decodeHtmlEntities(OrElse(raw.description, <<"No summary available">>)),
     country |-> GLOBAL,
     category |-> <<"general">>,
     sourceUrl |-> OrElse(raw.url, NULL),
     sourceApi |-> <<"Newsroom API">>]

\* if (rawArticle.url) { by sourceUrl } else { by title }
NewsroomExists(store, raw) ==
    IF ~Falsy(raw.url)
    THEN \E i \in 1..Len(store) : store[i].sourceUrl = raw.url
    ELSE Len(SelectByTitle(store, NewsroomTitle(raw))) > 0

NewsroomStart(w, n) ==
    /\ backend = "db"
    /\ run[w].kind = "idle"
    /\ items < MaxItems
    /\ Count(articles, LAMBDA a : a.sourceApi = <<"Newsroom API">>) = 0
    /\ run' = [run EXCEPT ![w] =
                [Idle EXCEPT !.kind = "newsroom", !.pc = "next", !.left = n,
                             !.size = n, !.country = GLOBAL]]
    /\ UNCHANGED <<sched, fetches, req, users, auth, backend, articles, nextId, clock, last, faults, items>>

NewsroomItem(w) ==
    /\ run[w].kind = "newsroom" /\ run[w].pc = "next"
    /\ run[w].left > 0
    /\ items < MaxItems
    /\ items' = items + 1
    /\ \E raw \in RawArticles, g \in Gens, now \in Nows :
        LET item == Begin("newsroom", raw, run[w].country, run[w].size)
            c == createArticle(backend, articles, nextId, now, NewsroomInsert(raw))
            e == updateArticle(backend, c.store, c.article.id, g.articleContent)
            content == IF g.threw \/ ~e.ok THEN NewsroomContent(raw)
                       ELSE g.articleContent
            u == updateArticle(backend, c.store, c.article.id, content)
            popped == [run EXCEPT ![w].left = @ - 1]
            done == [popped EXCEPT ![w] =
                        IF popped[w].left = 0 THEN Idle ELSE @]
        IN /\ run' = done
           /\ IF NewsroomExists(articles, raw)
              THEN /\ last' = Record([item EXCEPT !.dup = TRUE])
                   /\ UNCHANGED <<articles, nextId, clock>>
              ELSE /\ last' = Record([item EXCEPT !.enh = EnhKind(g), !.created = 1,
                                           !.updated = 1, !.id = c.article.id])
                   /\ articles' = u.store
                   /\ nextId' = nextId + 1
                   /\ clock' = now
    /\ UNCHANGED <<sched, fetches, req, users, auth, backend, faults>>

-----------------------------------------------------------------------------
(* The store and its ingestion paths, one run at a time *)

IngestStep(w) ==
    \/ \E n \in BatchSizes, country \in SeedCountries : SeedStart(w, n, country)
    \/ SeedNext(w)
    \/ SeedCheckUrl(w)
    \/ SeedCheckTitle(w)
    \/ SeedEnhance(w)
    \/ SeedCreate(w)
    \/ SeedUpdate(w)
    \/ SeedBasicCreate(w)
    \/ SeedBasicUpdate(w)
    \/ \E n \in BatchSizes : BatchStart(w, n)
    \/ BatchItem(w)
    \/ \E n \in BatchSizes, country \in ProxyCountries : ProxyStart(w, n, country)
    \/ ProxyItem(w)
    \/ \E n \in BatchSizes : NewsroomStart(w, n)
    \/ NewsroomItem(w)

-----------------------------------------------------------------------------
(* Accounts: the auth routes of auth-routes.ts on the user methods of both *)
(* stores.  A password is a text; what bcrypt.hash stores is a record of   *)
(* the algorithm and the text it was made of.  A token drawn from          *)
(* crypto.randomBytes(32) is a number never drawn before; 0 stands for the *)
(* null of a token or expiry column.  Time is `clock`, in milliseconds.    *)
(* The calls are made one after another.                                   *)

MaxTokens == 3
MaxAdvances == 2

\* 24 * 60 * 60 * 1000: the life of a verification token.
VerificationExpiry == 86400000

\* 1 * 60 * 60 * 1000: the life of a password-reset token.
ResetExpiry == 3600000

\* initializePlaceholderData: the test editor, with its password as typed.
EditorUser ==
    [username |-> "editor", email |-> "editor@example.com",
     password |-> [alg |-> "plain", text |-> "test123"],
     isEditor |-> TRUE, isVerified |-> TRUE,
     verificationToken |-> 0, verificationTokenExpiry |-> 0,
     resetPasswordToken |-> 0, resetPasswordExpiry |-> 0]

\* passwordRegex of registerSchema and resetPasswordSchema: 8 characters or
\* more with an uppercase letter, a digit and a special character.
passwordRegex(p) == p \in {"Passw0rd!", "N3wSecret#"}

\* bcrypt.hash(password, 10)
BcryptHash(p) == [alg |-> "bcrypt", text |-> p]

\* bcrypt.compare(password, user.password): false for a stored text that is
\* no bcrypt hash.
BcryptCompare(p, stored) == stored.alg = "bcrypt" /\ stored.text = p

\* getUserByEmail: the position of the first user with this email, 0 if none.
getUserByEmail(rows, email) ==
    IF \E i \in 1..Len(rows) : rows[i].email = email
    THEN CHOOSE i \in 1..Len(rows) :
            /\ rows[i].email = email
            /\ \A j \in 1..(i - 1) : rows[j].email # email
    ELSE 0

\* MemStorage.createUser: the insert as passed, password included.
MemCreateUser(rows, ins, token, now) ==
    [rows |-> Append(rows,
        [username |-> ins.username, email |-> ins.email,
         password |-> [alg |-> "plain", text |-> ins.password],
         isEditor |-> FALSE, isVerified |-> FALSE,
         verificationToken |-> token,
         verificationTokenExpiry |-> now + VerificationExpiry,
         resetPasswordToken |-> 0, resetPasswordExpiry |-> 0]),
     ok |-> TRUE]

\* DatabaseStorage.createUser: hashes the password, inserts the row, then
\* sends the verification email; a failure of the send rejects the call and
\* leaves the row.
DbCreateUser(rows, ins, token, now, mailFails) ==
    [rows |-> Append(rows,
        [username |-> ins.username, email |-> ins.email,
         password |-> BcryptHash(ins.password),
         isEditor |-> FALSE, isVerified |-> FALSE,
         verificationToken |-> token,
         verificationTokenExpiry |-> now + VerificationExpiry,
         resetPasswordToken |-> 0, resetPasswordExpiry |-> 0]),
     ok |-> ~mailFails]

\* A verifyEmail that leaves the token on the user.
VerifyKeepsToken(rows, token, now) ==
    LET found == {i \in 1..Len(rows) : rows[i].verificationToken = token}
        i == CHOOSE k \in found : \A j \in found : k <= j
    IN IF found = {} THEN [rows |-> rows, ok |-> FALSE]
       ELSE IF rows[i].verificationTokenExpiry # 0 /\ now > rows[i].verificationTokenExpiry
       THEN [rows |-> rows, ok |-> FALSE]
       ELSE [rows |-> [rows EXCEPT ![i].isVerified = TRUE], ok |-> TRUE]

\* verifyEmail of both stores: the first user holding the token; refused
\* when there is none or the expiry has passed; else verified, token and
\* expiry null.
verifyEmail(rows, token, now) ==
    LET found == {i \in 1..Len(rows) : rows[i].verificationToken = token}
        i == CHOOSE k \in found : \A j \in found : k <= j
    IN IF found = {} THEN [rows |-> rows, ok |-> FALSE]
       ELSE IF rows[i].verificationTokenExpiry # 0 /\ now > rows[i].verificationTokenExpiry
       THEN [rows |-> rows, ok |-> FALSE]
       ELSE [rows |-> [rows EXCEPT ![i].isVerified = TRUE,
                                   ![i].verificationToken = 0,
                                   ![i].verificationTokenExpiry = 0],
             ok |-> TRUE]

\* resendVerificationEmail of both stores: refused for no user and for a
\* verified one; else a new token and expiry.  DatabaseStorage then sends
\* the email, MemStorage logs; a failed send returns false with the new
\* token stored.
resendVerificationEmail(be, rows, email, token, now, mailFails) ==
    LET i == getUserByEmail(rows, email)
    IN IF i = 0 \/ rows[i].isVerified THEN [rows |-> rows, ok |-> FALSE]
       ELSE [rows |-> [rows EXCEPT ![i].verificationToken = token,
                                   ![i].verificationTokenExpiry = now + VerificationExpiry],
             ok |-> ~(be = "db" /\ mailFails)]

\* requestPasswordReset of both stores: false for no user; else a new reset
\* token and expiry.  DatabaseStorage then sends the email; a failed send
\* returns false with the token stored.
requestPasswordReset(be, rows, email, token, now, mailFails) ==
    LET i == getUserByEmail(rows, email)
    IN IF i = 0 THEN [rows |-> rows, ok |-> FALSE]
       ELSE [rows |-> [rows EXCEPT ![i].resetPasswordToken = token,
                                   ![i].resetPasswordExpiry = now + ResetExpiry],
             ok |-> ~(be = "db" /\ mailFails)]

\* A resetPassword that leaves the token on the user.
ResetKeepsToken(rows, token, newPassword, now) ==
    LET found == {i \in 1..Len(rows) : rows[i].resetPasswordToken = token}
        i == CHOOSE k \in found : \A j \in found : k <= j
    IN IF found = {} THEN [rows |-> rows, ok |-> FALSE]
       ELSE IF rows[i].resetPasswordExpiry # 0 /\ now > rows[i].resetPasswordExpiry
       THEN [rows |-> rows, ok |-> FALSE]
       ELSE [rows |-> [rows EXCEPT ![i].password = BcryptHash(newPassword)],
             ok |-> TRUE]

\* resetPassword of both stores: the first user holding the token; refused
\* when there is none or the expiry has passed; else the hash of the new
\* password, token and expiry null.
resetPassword(rows, token, newPassword, now) ==
    LET found == {i \in 1..Len(rows) : rows[i].resetPasswordToken = token}
        i == CHOOSE k \in found : \A j \in found : k <= j
    IN IF found = {} THEN [rows |-> rows, ok |-> FALSE]
       ELSE IF rows[i].resetPasswordExpiry # 0 /\ now > rows[i].resetPasswordExpiry
       THEN [rows |-> rows, ok |-> FALSE]
       ELSE [rows |-> [rows EXCEPT ![i].password = BcryptHash(newPassword),
                                   ![i].resetPasswordToken = 0,
                                   ![i].resetPasswordExpiry = 0],
             ok |-> TRUE]

\* POST /api/auth/register
Register(username, email, password) ==
    /\ auth.issued < MaxTokens
    /\ IF \/ ~passwordRegex(password)
          \/ \E i \in 1..Len(users) : users[i].username = username
          \/ getUserByEmail(users, email) # 0
       THEN /\ users' = users
            /\ auth' = auth
            /\ last' = [kind |-> "register", ok |-> FALSE, email |-> email,
                        token |-> 0, password |-> password]
       ELSE \E mailFails \in {be \in {FALSE, TRUE} : be => backend = "db"} :
            LET ins == [username |-> username, email |-> email, password |-> password]
                c == IF backend = "mem"
                     THEN MemCreateUser(users, ins, auth.issued + 1, clock)
                     ELSE DbCreateUser(users, ins, auth.issued + 1, clock, mailFails)
            IN /\ users' = c.rows
               /\ auth' = [auth EXCEPT !.issued = @ + 1,
                                       !.lastSet = @ \cup {<<email, password>>}]
               /\ last' = [kind |-> "register", ok |-> c.ok, email |-> email,
                           token |-> auth.issued + 1, password |-> password]
    /\ UNCHANGED <<sched, fetches, req, backend, articles, nextId, clock, run, faults, items>>

\* POST /api/auth/login
Login(email, password) ==
    /\ LET i == getUserByEmail(users, email)
       IN last' = [kind |-> "login",
                   ok |-> /\ i # 0
                          /\ users[i].isVerified
                          /\ BcryptCompare(password, users[i].password),
                   email |-> email, token |-> 0, password |-> password]
    /\ UNCHANGED <<sched, fetches, req, backend, articles, nextId, clock, run, faults, items, users, auth>>

\* GET /api/auth/verify-email
VerifyEmail(token) ==
    /\ LET v == verifyEmail(users, token, clock)
       IN /\ users' = v.rows
          /\ auth' = [auth EXCEPT !.verified = IF v.ok THEN @ \cup {token} ELSE @]
          /\ last' = [kind |-> "verify", ok |-> v.ok, email |-> "", token |-> token,
                      password |-> ""]
    /\ UNCHANGED <<sched, fetches, req, backend, articles, nextId, clock, run, faults, items>>

\* POST /api/auth/resend-verification
ResendVerification(email) ==
    /\ auth.issued < MaxTokens
    /\ \E mailFails \in {be \in {FALSE, TRUE} : be => backend = "db"} :
       LET i == getUserByEmail(users, email)
           r == resendVerificationEmail(backend, users, email, auth.issued + 1, clock, mailFails)
       IN /\ users' = r.rows
          /\ auth' = [auth EXCEPT !.issued = IF r.rows # users THEN @ + 1 ELSE @,
                                  !.replaced = IF r.rows # users
                                               THEN @ \cup {users[i].verificationToken}
                                               ELSE @]
          /\ last' = [kind |-> "resend", ok |-> r.ok, email |-> email,
                      token |-> auth.issued + 1, password |-> ""]
    /\ UNCHANGED <<sched, fetches, req, backend, articles, nextId, clock, run, faults, items>>

\* POST /api/auth/forgot-password
ForgotPassword(email) ==
    /\ auth.issued < MaxTokens
    /\ \E mailFails \in {be \in {FALSE, TRUE} : be => backend = "db"} :
       LET i == getUserByEmail(users, email)
           r == requestPasswordReset(backend, users, email, auth.issued + 1, clock, mailFails)
       IN /\ users' = r.rows
          /\ auth' = [auth EXCEPT !.issued = IF r.rows # users THEN @ + 1 ELSE @,
                                  !.superseded = IF r.rows # users
                                                 THEN @ \cup ({users[i].resetPasswordToken} \ {0})
                                                 ELSE @]
          /\ last' = [kind |-> "forgot", ok |-> r.ok, email |-> email,
                      token |-> auth.issued + 1, password |-> ""]
    /\ UNCHANGED <<sched, fetches, req, backend, articles, nextId, clock, run, faults, items>>

\* POST /api/auth/reset-password
ResetPassword(token, password) ==
    /\ LET r == IF passwordRegex(password)
                THEN resetPassword(users, token, password, clock)
                ELSE [rows |-> users, ok |-> FALSE]
           holder == {i \in 1..Len(users) : users[i].resetPasswordToken = token}
       IN /\ users' = r.rows
          /\ auth' = [auth EXCEPT
                !.used = IF r.ok THEN @ \cup {token} ELSE @,
                !.lastSet = IF r.ok
                            THEN LET email == users[CHOOSE i \in holder : TRUE].email
                                 IN {x \in @ : x[1] # email} \cup {<<email, password>>}
                            ELSE @]
          /\ last' = [kind |-> "reset", ok |-> r.ok, email |-> "", token |-> token,
                      password |-> password]
    /\ UNCHANGED <<sched, fetches, req, backend, articles, nextId, clock, run, faults, items>>

\* Time passes between two calls: a millisecond, or the life of a token.
AuthElapse(d) ==
    /\ auth.advances < MaxAdvances
    /\ clock' = clock + d
    /\ auth' = [auth EXCEPT !.advances = @ + 1]
    /\ UNCHANGED <<sched, fetches, req, backend, articles, nextId, run, last, faults, items, users>>

AuthNext ==
    \/ \E username \in {"reader", "editor"}, password \in {"Passw0rd!", "test123"} :
          Register(username, "reader@example.com", password)
    \/ \E email \in {"reader@example.com", "editor@example.com"},
          password \in {"Passw0rd!", "N3wSecret#", "test123"} : Login(email, password)
    \/ \E token \in 1..MaxTokens : VerifyEmail(token)
    \/ \E email \in {"reader@example.com", "editor@example.com"} : ResendVerification(email)
    \/ \E email \in {"reader@example.com", "editor@example.com"} : ForgotPassword(email)
    \/ \E token \in 1..MaxTokens, password \in {"N3wSecret#", "test123"} :
          ResetPassword(token, password)
    \/ \E d \in {1, ResetExpiry, VerificationExpiry} : AuthElapse(d)

\* What the articles table can hold when the server starts: nothing, or an
\* article a previous run of the seed pipeline stored (fallback path, 'US').
StoredEarlier ==
    LET raw == Raw(<<"T1">>, <<"u1">>, <<"d1">>, <<"x", " ", "[+", "9", " ", "chars]">>, NULL)
        c == DbCreateArticle(<< >>, 1, 0, SeedBasicInsert(raw, US))
    IN DbUpdateArticle(c.store, 1, SeedCleanContent(raw)).store[1]

InitialTables == {<< >>, <<StoredEarlier>>}

StoreInit ==
    /\ backend \in {"mem", "db"}
    /\ articles \in IF backend = "mem" THEN {PlaceholderData} ELSE InitialTables
    /\ nextId = IF backend = "mem" THEN 1 ELSE Len(articles) + 1
    /\ clock = 0
    /\ run = [w \in Workers |-> Idle]
    /\ last = NoEntry
    /\ faults = 0
    /\ items = 0
    /\ users = IF backend = "mem" THEN <<EditorUser>> ELSE << >>
    /\ auth = [advances |-> 0, issued |-> 0, lastSet |-> {},
                verified |-> {}, replaced |-> {}, used |-> {}, superseded |-> {}]

-----------------------------------------------------------------------------
(* background-fetch.ts: two setInterval timers of one minute, each guarded *)
(* by a rate floor of one minute, and a fetch of each source at start.     *)
(* Time is kept as the Date.now() distance to the last fetch of each       *)
(* source; a timer callback can observe one period, or 1 ms less.          *)

MaxTicks == 56

ALL_COUNTRIES ==
    << "ae", "ar", "at", "au", "be", "bg", "br", "ca", "ch", "cn", "co", "cu", "cz",
       "de", "eg", "fr", "gb", "gr", "hk", "hu", "id", "ie", "il", "in", "it", "jp",
       "kr", "lt", "lv", "ma", "mx", "my", "ng", "nl", "no", "nz", "ph", "pl", "pt",
       "ro", "rs", "ru", "sa", "se", "sg", "si", "sk", "th", "tr", "tw", "ua", "us",
       "ve", "za" >>

\* The period of both setInterval timers, and the rate floor of their guards.
TickInterval == 60000
RateFloor == 60000

\* Date.now() between two callbacks of a timer, or between start and the first.
Jitter == {TickInterval - 1, TickInterval}

\* sinceNewsApi and sinceNewsroom are now - lastNewsApiFetch and
\* now - lastNewsroomFetch as the next callback reads them.  failed: some
\* News API fetch issued so far failed; failedBefore: one issued before the
\* latest did; returned: response.data.articles of the latest News API
\* fetch, which fetchNewsForCountry counts for its log line and drops;
\* newsroomFailed: the latest Newsroom fetch failed.
NotStarted ==
    [pc |-> "init", currentCountryIndex |-> 0, sinceNewsApi |-> 0,
     sinceNewsroom |-> 0, ticks |-> 0, failed |-> FALSE, failedBefore |-> FALSE,
     returned |-> << >>, newsroomFailed |-> FALSE]

\* What the fetch service can answer a fetch with: no article, or one.
Fetched(fails) ==
    IF fails THEN {<< >>}
    ELSE {<< >>, <<CHOOSE r \in RawArticles : r.url = <<"u1">> >>}

\* A cursor that stays where it is.
SameIndex(i) == i

\* currentCountryIndex = (currentCountryIndex + 1) % ALL_COUNTRIES.length
NextIndex(i) == (i + 1) % Len(ALL_COUNTRIES)

\* A guard that lets every callback through.
FloorAlwaysPassed(since) == TRUE

\* if (now - lastNewsApiFetch >= 60000)
FloorPassed(since) == since >= RateFloor

\* A schedule that stays on the country whose fetch failed.
StallOnFailure(s, fails) ==
    [s EXCEPT !.currentCountryIndex = IF fails THEN @ ELSE NextIndex(@),
              !.sinceNewsApi = 0,
              !.failedBefore = s.failed,
              !.failed = @ \/ fails]

\* fetchNewsForCountry(country) is called and not awaited, it catches its
\* own errors; then the cursor moves on and lastNewsApiFetch = now.
AfterFetch(s, fails) ==
    [s EXCEPT !.currentCountryIndex = NextIndex(@),
              !.sinceNewsApi = 0,
              !.failedBefore = s.failed,
              !.failed = @ \/ fails]

\* A Newsroom fetch that also restarts the rate floor of the News API.
NewsroomFetchResetsNewsApi(s, fails) ==
    [s EXCEPT !.sinceNewsroom = 0, !.sinceNewsApi = 0, !.newsroomFailed = fails]

\* fetchNewsFromNewsroom() is called and not awaited, it catches its own
\* errors; then lastNewsroomFetch = now.
AfterNewsroomFetch(s, fails) ==
    [s EXCEPT !.sinceNewsroom = 0, !.newsroomFailed = fails]

\* startBackgroundFetching: the initial fetch of both sources.
StartBackgroundFetching ==
    /\ sched.pc = "init"
    /\ \E fails \in BOOLEAN, nfails \in BOOLEAN : \E got \in Fetched(fails) :
        /\ fetches' = Append(fetches, ALL_COUNTRIES[sched.currentCountryIndex + 1])
        /\ sched' = [AfterNewsroomFetch(AfterFetch(sched, fails), nfails)
                        EXCEPT !.pc = "wait", !.returned = got]
    /\ UNCHANGED <<storeVars, req>>

\* One period passes; both timers become due, the News API timer first.
Elapse(dNewsApi, dNewsroom) ==
    /\ sched.pc = "wait"
    /\ sched.ticks < MaxTicks
    /\ sched' = [sched EXCEPT !.pc = "newsapi",
                              !.sinceNewsApi = @ + dNewsApi,
                              !.sinceNewsroom = @ + dNewsroom]
    /\ UNCHANGED <<storeVars, fetches, req>>

\* The callback of the News API timer.
NewsApiTick ==
    /\ sched.pc = "newsapi"
    /\ IF FloorPassed(sched.sinceNewsApi)
       THEN \E fails \in BOOLEAN : \E got \in Fetched(fails) :
            /\ fetches' = Append(fetches, ALL_COUNTRIES[sched.currentCountryIndex + 1])
            /\ sched' = [AfterFetch(sched, fails) EXCEPT !.pc = "newsroom",
                                                         !.ticks = @ + 1,
                                                         !.returned = got]
       ELSE /\ sched' = [sched EXCEPT !.pc = "newsroom", !.ticks = @ + 1]
            /\ UNCHANGED fetches
    /\ UNCHANGED <<storeVars, req>>

\* The callback of the Newsroom timer.
NewsroomTick ==
    /\ sched.pc = "newsroom"
    /\ IF FloorPassed(sched.sinceNewsroom)
       THEN \E fails \in BOOLEAN :
            sched' = [AfterNewsroomFetch(sched, fails) EXCEPT !.pc = "wait"]
       ELSE sched' = [sched EXCEPT !.pc = "wait"]
    /\ UNCHANGED <<storeVars, fetches, req>>

SchedNext ==
    \/ StartBackgroundFetching
    \/ \E dNewsApi \in Jitter, dNewsroom \in Jitter : Elapse(dNewsApi, dNewsroom)
    \/ NewsApiTick
    \/ NewsroomTick

-----------------------------------------------------------------------------
(* GET /api/articles as a process: the route races storage.getArticles      *)
(* against a timer; DatabaseStorage.getArticles awaits a quick count, then  *)
(* the page query, then the count query, each raced against its own timer.  *)
(* req.t is the time in ms since the request arrived.  The table does not   *)
(* change while a request is served.                                        *)

\* The delays of the four setTimeout calls.
QuickCountTimeout == 2000
ArticlesTimeout == 5000
CountTimeout == 5000
RouteTimeout == 10000

\* The longest time the model lets pass without an event.
Quantum == 1000

\* The country values a listing request is made with: absent, GLOBAL in both
\* cases, and a country code in both cases.
Filters == {NULL, GLOBAL, US, <<"u", "s">>, <<"g", "l", "o", "b", "a", "l">>}

Pages == 1..MaxPage
PageSizes == 1..MaxPageSize

EmptyResult == [articles |-> << >>, totalCount |-> 0]

\* A fallback that reports no Article at all.
CountFallbackZero(results) == [articles |-> results, totalCount |-> 0]

\* catch (countErr): totalCount = results.length
CountFallback(results) == [articles |-> results, totalCount |-> Len(results)]

NoRequest ==
    [pc |-> "idle", country |-> NULL, page |-> 1, pageSize |-> 1, hang |-> FALSE,
     t |-> 0, mainAt |-> -1, results |-> << >>, counted |-> "none",
     timedOut |-> {}, routeFired |-> FALSE, unhandled |-> FALSE,
     result |-> EmptyResult, response |-> ArticlesResponse(EmptyResult, 1, 1),
     doneAt |-> -1, status |-> 0]

\* A timer that never fires.
NeverDue(t, deadline) == FALSE

\* setTimeout: the callback runs once the delay has passed.
Due(t, deadline) == t >= deadline

\* The number of rows the where clause of the count queries matches.
CountQuery(country) == Count(articles, LAMBDA a : DbMatches(a, country))

\* A route that answers 500 when the query path failed.
StatusByOutcome(why) == IF why \subseteq {"quick", "quickError"} THEN 200 ELSE 500

\* res.json(...) without res.status(...): the status of every answer of the
\* route, whatever happened in the query path.
Status(why) == 200

\* getArticles returns and the route answers, unless the route has answered.
Finish(r, result, why) ==
    IF r.pc = "done" THEN r
    ELSE [r EXCEPT !.pc = "done",
                   !.result = result,
                   !.response = ArticlesResponse(result, r.page, r.pageSize),
                   !.timedOut = @ \cup why,
                   !.doneAt = r.t,
                   !.status = Status(r.timedOut \cup why)]

\* The request arrives.  MemStorage.getArticles has nothing to wait for; a
\* database whose queries hang never answers any of them.
ListStart(country, page, pageSize, hang) ==
    /\ req.pc = "idle"
    /\ hang => backend = "db"
    /\ LET r == [NoRequest EXCEPT !.pc = "quick", !.country = country,
                                  !.page = page, !.pageSize = pageSize,
                                  !.hang = hang]
       IN req' = IF backend = "mem"
                 THEN Finish(r, MemGetArticles(articles, country, page, pageSize), {})
                 ELSE r
    /\ UNCHANGED <<storeVars, schedVars>>

\* The request arrives with country[]=..., so that country is an array:
\* MemStorage.getArticles rejects at country.toUpperCase(), and the route
\* catches it ('Error querying articles').
ListStartArray(page, pageSize) ==
    /\ req.pc = "idle"
    /\ backend = "mem"
    /\ req' = Finish([NoRequest EXCEPT !.pc = "quick", !.page = page,
                                       !.pageSize = pageSize],
                     EmptyResult, {"storageError"})
    /\ UNCHANGED <<storeVars, schedVars>>

\* A query of the database rejects before its timer: the quick count
\* ('continuing with main query'), the page query ('returning empty array')
\* or the count query ('using results length as count'; a rejection while
\* the call still awaits the page query has no handler yet).
QueryError(q) ==
    /\ ~req.hang
    /\ \/ /\ q = "quick"
          /\ req.pc = "quick"
          /\ ~Due(req.t, QuickCountTimeout)
          /\ req' = [req EXCEPT !.pc = "main", !.mainAt = req.t,
                                !.counted = "pending",
                                !.timedOut = @ \cup {"quickError"}]
       \/ /\ q = "articles"
          /\ req.pc = "main"
          /\ ~Due(req.t, req.mainAt + ArticlesTimeout)
          /\ req' = Finish(req, EmptyResult, {"articlesError"})
       \/ /\ q = "count"
          /\ req.pc \in {"main", "count"}
          /\ req.counted = "pending"
          /\ ~Due(req.t, req.mainAt + CountTimeout)
          /\ LET r == [req EXCEPT !.counted = "rejected"]
             IN req' = IF req.pc = "count"
                       THEN Finish(r, CountFallback(req.results), {"countError"})
                       ELSE [r EXCEPT !.unhandled = TRUE]
    /\ UNCHANGED <<storeVars, schedVars>>

\* The quick count answers in time: zero ends the call, else the page query
\* and the count query are issued, each with its timer.
QuickCountAnswer ==
    /\ req.pc = "quick"
    /\ ~req.hang
    /\ ~Due(req.t, QuickCountTimeout)
    /\ req' = IF CountQuery(req.country) = 0
              THEN Finish(req, EmptyResult, {})
              ELSE [req EXCEPT !.pc = "main", !.mainAt = req.t, !.counted = "pending"]
    /\ UNCHANGED <<storeVars, schedVars>>

\* 'Quick count timed out, continuing with main query'
QuickCountTimer ==
    /\ req.pc = "quick"
    /\ Due(req.t, QuickCountTimeout)
    /\ req' = [req EXCEPT !.pc = "main", !.mainAt = req.t, !.counted = "pending",
                          !.timedOut = @ \cup {"quick"}]
    /\ UNCHANGED <<storeVars, schedVars>>

\* The page query answers in time; the call goes on to await the count.
ArticlesAnswer ==
    /\ req.pc = "main"
    /\ ~req.hang
    /\ ~Due(req.t, req.mainAt + ArticlesTimeout)
    /\ \E r \in DbGetArticles(articles, req.country, req.page, req.pageSize) :
        req' = IF req.counted = "answered"
               THEN Finish(req, r, {})
               ELSE IF req.counted = "rejected"
               THEN Finish(req, CountFallback(r.articles), {"countError"})
               ELSE [req EXCEPT !.pc = "count", !.results = r.articles]
    /\ UNCHANGED <<storeVars, schedVars>>

\* The count query answers in time.
CountAnswer ==
    /\ req.pc \in {"main", "count"}
    /\ req.counted = "pending"
    /\ ~req.hang
    /\ ~Due(req.t, req.mainAt + CountTimeout)
    /\ LET r == [req EXCEPT !.counted = "answered"]
       IN req' = IF req.pc = "count"
                 THEN Finish(r, [articles |-> req.results,
                                 totalCount |-> CountQuery(req.country)], {})
                 ELSE r
    /\ UNCHANGED <<storeVars, schedVars>>

\* 'Articles query timed out, returning empty array'
ArticlesTimer ==
    /\ req.pc = "main"
    /\ Due(req.t, req.mainAt + ArticlesTimeout)
    /\ req' = Finish(req, EmptyResult, {"articles"})
    /\ UNCHANGED <<storeVars, schedVars>>

\* The timer of the count query, set after the one of the page query: when
\* the call awaits the count, 'using results length as count'; when the call
\* has returned already, the rejection has no handler.
CountTimer ==
    /\ req.counted = "pending"
    /\ req.pc \in {"count", "done"}
    /\ Due(req.t, req.mainAt + CountTimeout)
    /\ LET r == [req EXCEPT !.counted = "rejected"]
       IN req' = IF req.pc = "count"
                 THEN Finish(r, CountFallback(req.results), {"count"})
                 ELSE [r EXCEPT !.unhandled = TRUE]
    /\ UNCHANGED <<storeVars, schedVars>>

\* 'Articles query timed out, returning empty array': the timer of the route,
\* which is never cleared.
RouteTimer ==
    /\ req.pc # "idle"
    /\ ~req.routeFired
    /\ Due(req.t, RouteTimeout)
    /\ req' = [Finish(req, EmptyResult, {"route"}) EXCEPT !.routeFired = TRUE]
    /\ UNCHANGED <<storeVars, schedVars>>

\* The deadlines of the timers still to fire.
Deadlines ==
    {RouteTimeout}
    \cup (IF req.pc = "quick" THEN {QuickCountTimeout} ELSE {})
    \cup (IF req.pc = "main" THEN {req.mainAt + ArticlesTimeout} ELSE {})
    \cup (IF req.counted = "pending" THEN {req.mainAt + CountTimeout} ELSE {})

\* Time passes, up to the next timer; a query can answer at any time before.
Wait ==
    /\ req.pc # "idle"
    /\ ~req.routeFired
    /\ \A d \in Deadlines : ~Due(req.t, d)
    /\ LET next == CHOOSE d \in Deadlines : \A e \in Deadlines : d <= e
       IN req' = [req EXCEPT !.t =
                    IF ~req.hang /\ req.pc \in {"quick", "main", "count"}
                    THEN Min(req.t + Quantum, next) ELSE next]
    /\ UNCHANGED <<storeVars, schedVars>>

ListNext ==
    \/ \E country \in Filters, page \in Pages, pageSize \in PageSizes, hang \in BOOLEAN :
         ListStart(country, page, pageSize, hang)
    \/ \E page \in Pages, pageSize \in PageSizes : ListStartArray(page, pageSize)
    \/ \E q \in {"quick", "articles", "count"} : QueryError(q)
    \/ QuickCountAnswer
    \/ QuickCountTimer
    \/ ArticlesAnswer
    \/ CountAnswer
    \/ ArticlesTimer
    \/ CountTimer
    \/ RouteTimer
    \/ Wait

\* The table after earlier batches: the raw articles stored one by one.
RECURSIVE Ingested(_, _, _, _)
Ingested(be, store, id, raws) ==
    IF raws = << >> THEN store
    ELSE Ingested(be,
                  createArticle(be, store, id, 1, BatchInsert(Head(raws), <<"NewsAPI">>)).store,
                  id + 1, Tail(raws))

RawSequences == UNION {[1..n -> RawArticles] : n \in 0..MaxItems}

ListInit ==
    /\ backend \in {"mem", "db"}
    /\ \E base \in (IF backend = "mem" THEN {PlaceholderData} ELSE InitialTables),
          raws \in RawSequences :
        /\ nextId = (IF backend = "mem" THEN 1 ELSE Len(base) + 1) + Len(raws)
        /\ articles = Ingested(backend, base, nextId - Len(raws), raws)
        /\ items = Len(raws)
    /\ clock = 1
    /\ run = [w \in Workers |-> Idle]
    /\ last = NoEntry
    /\ faults = 0
    /\ sched = NotStarted
    /\ fetches = << >>
    /\ req = NoRequest
    /\ users = IF backend = "mem" THEN <<EditorUser>> ELSE << >>
    /\ auth = [advances |-> 0, issued |-> 0, lastSet |-> {},
                verified |-> {}, replaced |-> {}, used |-> {}, superseded |-> {}]

\* The event loop runs a timer callback once it is due, and time passes.
ListFairness ==
    /\ WF_vars(Wait)
    /\ WF_vars(QuickCountTimer)
    /\ WF_vars(ArticlesTimer)
    /\ WF_vars(CountTimer)
    /\ WF_vars(RouteTimer)

-----------------------------------------------------------------------------
(* The storage interface called directly: createArticle, updateArticle and  *)
(* deleteArticle of IStorage, on either implementation.                      *)

MaxCalls == 3

\* The ids a caller can pass: stored ones, the next free one, one far away.
ApiIds == {1, 2, 3, 11, 99}

\* An InsertArticle with every required field present.
FullInsert ==
    [title |-> <<"T9">>, originalContent |-> <<"c9">>, summary |-> <<"s9">>,
     country |-> US, category |-> <<"general">>, sourceUrl |-> NULL,
     sourceApi |-> <<"NewsAPI">>]

RequiredFields ==
    {"title", "originalContent", "summary", "country", "category", "sourceApi"}

\* The inserts a caller can pass: complete, or with one required field absent.
Inserts ==
    {FullInsert} \cup {[FullInsert EXCEPT ![f] = NULL] : f \in RequiredFields}

\* The record of one call of the interface: the table before it, what was
\* passed, whether the promise resolved (ok) and with which Article.  again:
\* the call before it was the same deleteArticle(id), made on firstBefore.
Call(kind, id, ins, ok, article) ==
    [kind |-> kind, id |-> id, ins |-> ins, ok |-> ok, article |-> article,
     before |-> articles,
     again |-> kind = "delete" /\ last.kind = "delete" /\ last.id = id,
     firstBefore |-> IF kind = "delete" /\ last.kind = "delete" /\ last.id = id
                     THEN last.before ELSE << >>]

\* The ids of the articles that rows of the comments table refer to
\* (comments.article_id references articles.id, without ON DELETE).
Commented == {2}

\* A deleteArticle that also drops the row stored first.
DeleteAlsoFirst(store, id) ==
    [ok |-> TRUE,
     store |-> IF store = << >> THEN store
               ELSE SelectSeq(Tail(store), LAMBDA a : a.id # id)]

\* MemStorage.deleteArticle: Map.delete(id); an absent key is not an error.
\* The comments of the article are deleted with it.
MemDeleteArticle(store, id) ==
    [ok |-> TRUE, store |-> SelectSeq(store, LAMBDA a : a.id # id)]

\* DatabaseStorage.deleteArticle: delete from articles where id = ...; no
\* row matching is not an error, a row that comments refer to is kept and
\* the call rejects.
DbDeleteArticle(store, id) ==
    IF id \in Commented /\ id \in {store[i].id : i \in 1..Len(store)}
    THEN [ok |-> FALSE, store |-> store]
    ELSE [ok |-> TRUE, store |-> SelectSeq(store, LAMBDA a : a.id # id)]

deleteArticle(be, store, id) ==
    IF be = "mem" THEN MemDeleteArticle(store, id)
    ELSE DbDeleteArticle(store, id)

ApiCreate(ins) ==
    /\ items < MaxCalls
    /\ items' = items + 1
    /\ \E now \in Nows :
        LET c == createArticle(backend, articles, nextId, now, ins)
        IN /\ articles' = c.store
           /\ nextId' = IF c.ok THEN nextId + 1 ELSE nextId
           /\ clock' = IF c.ok THEN now ELSE clock
           /\ last' = Call("create", c.article.id, ins, c.ok, c.article)
    /\ UNCHANGED <<sched, fetches, req, users, auth, backend, run, faults>>

ApiUpdate(id, content) ==
    /\ items < MaxCalls
    /\ items' = items + 1
    /\ LET u == updateArticle(backend, articles, id, content)
       IN /\ articles' = u.store
          /\ last' = Call("update", id, content, u.ok, NULL)
    /\ UNCHANGED <<sched, fetches, req, users, auth, backend, run, faults, nextId, clock>>

ApiDelete(id) ==
    /\ items < MaxCalls
    /\ items' = items + 1
    /\ LET d == deleteArticle(backend, articles, id)
       IN /\ articles' = d.store
          /\ last' = Call("delete", id, NULL, d.ok, NULL)
    /\ UNCHANGED <<sched, fetches, req, users, auth, backend, run, faults, nextId, clock>>

ApiNext ==
    \/ \E ins \in Inserts : ApiCreate(ins)
    \/ \E id \in ApiIds : ApiUpdate(id, <<"enhanced-content">>)
    \/ \E id \in ApiIds : ApiDelete(id)

-----------------------------------------------------------------------------
(* The specifications share the initial state of the server. *)


Init ==
    /\ StoreInit
    /\ sched = NotStarted
    /\ fetches = << >>
    /\ req = NoRequest

SchedSpec == Init /\ [][SchedNext]_vars

ListSpec == ListInit /\ [][ListNext]_vars

ListFair == ListSpec /\ ListFairness

Next == \E w \in SeqWorkers : IngestStep(w)

Spec == Init /\ [][Next]_vars

\* Two runs of the seed pipeline at a time, each on one raw article: their
\* awaited steps interleave.
RaceStep(w) ==
    \/ \E country \in SeedCountries : SeedStart(w, 1, country)
    \/ SeedNext(w)
    \/ SeedCheckUrl(w)
    \/ SeedCheckTitle(w)
    \/ SeedEnhance(w)
    \/ SeedCreate(w)
    \/ SeedUpdate(w)
    \/ SeedBasicCreate(w)
    \/ SeedBasicUpdate(w)

RaceNext == \E w \in Workers : RaceStep(w)

RaceSpec == Init /\ [][RaceNext]_vars

ApiSpec == Init /\ [][ApiNext]_vars

AuthSpec == Init /\ [][AuthNext]_vars

-----------------------------------------------------------------------------
(* Claims about the ingestion paths *)

\* No item is being processed: `last` describes the newest change of the table.
Quiet == \A w \in Workers : run[w].pc \in {"idle", "next"}

\* The stored article with the id the last item's create returned.
Stored(id) == articles[CHOOSE i \in 1..Len(articles) : articles[i].id = id]

\* The same raw article, with a url, has just gone through the seed pipeline
\* twice in a row, and no store call failed.
SeedTwice ==
    /\ Quiet
    /\ last.kind = "seed"
    /\ last.again
    /\ ~Falsy(last.raw.url)

\* C1 as stated: after the same raw article with a non-empty url went through
\* ingest twice in sequence, exactly one stored Article has its sourceUrl.
C1_ExactlyOneAfterTwoRuns ==
    SeedTwice => UrlCount(articles, last.raw.url) = 1

\* The first of the two runs stored two Articles with the url: one on the
\* enhanced path, one on the fallback path.
SeedTwiceDoubled ==
    /\ SeedTwice
    /\ last.firstCreated = 2
    /\ UrlCount(articles, last.raw.url) = 2

\* The same one-article batch, with a url, has just been posted twice in a row
\* and the first call created its Article.
BatchTwice ==
    /\ Quiet
    /\ last.kind = "batch"
    /\ last.again
    /\ last.size = 1
    /\ ~Falsy(last.raw.url)
    /\ last.firstCreated = 1

\* C2 as stated: the same one-article batch posted twice in a row creates 1
\* Article on the first call and 0 on the second, and a listing that follows
\* returns exactly 1 item with that url.
C2_SecondBatchCreatesNothing ==
    BatchTwice =>
        /\ last.created = 0
        /\ \A r \in getArticles(backend, articles, NULL, 1, Len(articles) + 1) :
             UrlCount(r.articles, last.raw.url) = 1

\* A raw article without url whose title is the title of a stored Article has
\* just gone through the seed pipeline or the proxy-newsroom ingestion.
TitleOnlyDuplicate ==
    /\ Quiet
    /\ last.kind \in {"seed", "newsroom"}
    /\ Falsy(last.raw.url)
    /\ ~Falsy(last.raw.title)
    /\ TitleCount(last.before, last.raw.title) > 0

\* C3: a raw article whose url is absent and whose title exactly equals the
\* title of a stored Article is skipped: no Article is created and the table
\* is left as it was.
C3_TitleFallbackSkips ==
    TitleOnlyDuplicate =>
        /\ last.dup
        /\ last.created = 0 /\ last.updated = 0
        /\ articles = last.before

C3_Witness ==
    /\ TitleOnlyDuplicate
    /\ last.kind = "seed"
    /\ last.dup
    /\ Len(articles) > 0

\* generateArticleContent threw for a raw article the gate let through, and no
\* store call failed.
EnhancerFailed ==
    /\ Quiet
    /\ last.kind = "seed"
    /\ last.enh = "throw"
    /\ ~last.dup
    /\ ~last.fault

RawSummary(raw) == OrElse(raw.description, <<"No summary available">>)

RawContent(raw) ==
    OrElse(raw.content, OrElse(raw.description, <<"Article content unavailable">>))

OneStoredFor(item) ==
    /\ item.created = 1
    /\ Len(articles) = Len(item.before) + 1
    /\ Count(articles, LAMBDA a : a.id = item.id) = 1
    /\ Count(item.before, LAMBDA a : a.id = item.id) = 0
    /\ Stored(item.id).summary # << >>
    /\ Stored(item.id).summary # NULL
    /\ Stored(item.id).summary = RawSummary(item.raw)

\* C4 as stated: on enhancer failure exactly one Article is stored, its
\* summary is non-empty (the description, else 'No summary available') and its
\* aiEnhancedContent equals the raw content with a trailing '[+N chars]'
\* marker stripped.
C4_ContentIsRawMinusMarker ==
    EnhancerFailed =>
        /\ OneStoredFor(last)
        /\ Stored(last.id).aiEnhancedContent = StripMarker(last.raw.content)

\* C4, amended: ... and its aiEnhancedContent equals the raw content (the
\* content, else the description, else 'Article content unavailable') with a
\* trailing '[+N chars]' marker stripped and then trimmed of the whitespace
\* around it.
C4_DegradeOnEnhancerFailure ==
    EnhancerFailed =>
        /\ OneStoredFor(last)
        /\ Stored(last.id).aiEnhancedContent
             = TrimLeft(TrimRight(StripMarker(RawContent(last.raw))))

C4_Witness ==
    /\ EnhancerFailed
    /\ last.created = 1
    /\ MarkerStarts(last.raw.content) # {}
    /\ Stored(last.id).aiEnhancedContent = <<"x">>

-----------------------------------------------------------------------------
(* Claims about getArticles and GET /api/articles *)

\* A page size that puts every Article on page 1.
Whole == Len(articles) + 1

Ids(rows) == {rows[i].id : i \in 1..Len(rows)}

\* C5 as stated: list with country = 'GLOBAL' returns exactly the Articles
\* whose country is exactly GLOBAL or exactly GLOBAL-TRENDING, on MemStorage
\* and on DatabaseStorage alike.
C5_GlobalUnionIsExact ==
    \A r \in getArticles(backend, articles, GLOBAL, 1, Whole) :
        Ids(r.articles) =
            {articles[i].id : i \in Indexes(articles,
                LAMBDA a : a.country = GLOBAL \/ a.country = GLOBAL_TRENDING)}

\* The number of stored Articles the backend's filter matches.
Matching(country) == Count(articles, LAMBDA a : Matches(backend, a, country))

\* Sixty-five Articles, each newer than the one before.
SixtyFive ==
    [i \in 1..65 |-> [createPlaceholderArticle(i, GLOBAL, FALSE) EXCEPT !.createdAt = i]]

PageCounts(r, n, page, pageSize) ==
    LET totalPages == ArticlesResponse(r, page, pageSize).pagination.totalPages
    IN /\ r.totalCount = n
       /\ Len(r.articles) = Min(pageSize, Max(0, n - (page - 1) * pageSize))
       /\ Len(ArticlesResponse(r, page, pageSize).articles) = Len(r.articles)
       /\ ArticlesResponse(r, page, pageSize).pagination.totalCount = n
       /\ totalPages * pageSize >= n
       /\ (totalPages - 1) * pageSize < n \/ (totalPages = 0 /\ n = 0)

SixtyFiveExample ==
    /\ \A r \in getArticles("mem", SixtyFive, NULL, 1, 30) :
         /\ Len(r.articles) = 30
         /\ ArticlesResponse(r, 1, 30).pagination.totalPages = 3
    /\ \A r \in getArticles("mem", SixtyFive, NULL, 3, 30) :
         /\ Len(r.articles) = 5
         /\ ArticlesResponse(r, 3, 30).pagination.totalPages = 3

\* A listing request has been answered, and neither the page query nor the
\* count query nor the route ran into its timer.
Answered ==
    /\ req.pc = "done"
    /\ req.timedOut \subseteq {"quick", "quickError"}

\* C6: for every store content, page >= 1 and pageSize > 0, a list whose
\* queries are answered returns totalCount equal to the number of Articles
\* matching the filter, whatever the page, an items list of length
\* min(pageSize, max(0, totalCount - (page-1)*pageSize)), and the endpoint
\* reports totalPages = ceil(totalCount / pageSize); with 65 Articles and
\* pageSize 30, page 1 has 30 items, totalPages is 3 and page 3 has 5 items.
C6_PaginationCounts ==
    /\ Answered =>
        /\ PageCounts(req.result, Matching(req.country), req.page, req.pageSize)
        /\ req.response = ArticlesResponse(req.result, req.page, req.pageSize)
        /\ \A other \in Pages :
             \A r \in getArticles(backend, articles, req.country, other, req.pageSize) :
                r.totalCount = req.result.totalCount
    /\ SixtyFiveExample

\* A request for the partial last page of three matching Articles has been
\* answered by the database.
C6_Witness ==
    /\ Answered
    /\ backend = "db"
    /\ req.page = 2 /\ req.pageSize = 2
    /\ req.result.totalCount = 3
    /\ Len(req.response.articles) = 1
    /\ req.response.pagination.totalPages = 2

\* The queries of the database hang and a listing request is waiting.
Hanging == req.hang /\ req.pc \in {"quick", "main", "count"}

\* The request has been answered with an empty list and totalCount 0, no
\* later than the timer of the route.
AnsweredEmpty ==
    /\ req.pc = "done"
    /\ req.response.articles = << >>
    /\ req.response.pagination.totalCount = 0
    /\ req.doneAt <= RouteTimeout

\* C10: if the store's list queries hang forever, a listing request still
\* completes: it is answered when a fixed timeout fires, with an empty
\* articles list and totalCount 0, instead of waiting on the store.
C10_HangingListIsAnswered == Hanging ~> AnsweredEmpty

\* A request against a table with matching Articles whose queries hung has
\* been answered empty by the timers.
C10_Witness ==
    /\ req.hang
    /\ AnsweredEmpty
    /\ Matching(req.country) > 0
    /\ "articles" \in req.timedOut
    /\ req.doneAt > 0

Descending(rows) ==
    \A i, j \in 1..Len(rows) : i < j => rows[i].createdAt >= rows[j].createdAt

\* C7 as stated: every returned page is in descending createdAt order, no
\* item of page p+1 is newer than an item of page p, and with the store
\* unchanged the pages 1..totalPages together hold every matching Article
\* exactly once: no Article is on two pages and the pages hold as many items
\* as there are matching Articles.
C7_PagesPartitionMatches ==
    \A c \in Filters, pageSize \in PageSizes :
        LET totalPages == Ceil(Matching(c), pageSize)
            list(page) == getArticles(backend, articles, c, page, pageSize)
        IN /\ \A p \in 1..totalPages : \A r \in list(p) :
                /\ Descending(r.articles)
                /\ \A i \in 1..Len(r.articles) : Matches(backend, r.articles[i], c)
                /\ Cardinality(Ids(r.articles)) = Len(r.articles)
           /\ \A p \in 1..totalPages, q \in 1..totalPages :
                p < q => \A r \in list(p), t \in list(q) :
                    /\ Descending(r.articles \o t.articles)
                    /\ Ids(r.articles) \cap Ids(t.articles) = {}

\* C8 as stated: a country filter other than GLOBAL matches exactly the
\* Articles whose country equals the filter value ignoring letter case, an
\* absent filter matches all Articles, and both storages do so.
C8_CountryFilterIgnoresCase ==
    \A c \in Filters :
        ToUpperCase(c) # GLOBAL =>
            \A r \in getArticles(backend, articles, c, 1, Whole) :
                Ids(r.articles) =
                    {articles[i].id : i \in Indexes(articles,
                        LAMBDA a : Falsy(c) \/ ToUpperCase(a.country) = ToUpperCase(c))}
-----------------------------------------------------------------------------
(* Claims about the background fetch scheduler *)

\* How many of the fetches issued so far were for this country code.
FetchesFor(country) ==
    Cardinality({k \in 1..Len(fetches) : fetches[k] = country})

Codes == {ALL_COUNTRIES[i] : i \in 1..Len(ALL_COUNTRIES)}

\* C9 as stated: after N timer ticks, N being the length of the country
\* rotation list, exactly one fetch has been issued for each country code.
C9_OneFetchPerCountryAfterNTicks ==
    sched.ticks = Len(ALL_COUNTRIES) =>
        \A country \in Codes : FetchesFor(country) = 1

\* C9, amended: the fetch issued at start is the first of the rotation and a
\* timer tick issues the next one only when the rate floor has passed; the
\* k-th fetch issued is for the k-th code of the rotation list, counted
\* cyclically, so once N fetches have been issued the first N of them are
\* exactly one fetch for each country code, each with a distinct partition
\* argument, whether or not individual fetches failed; after t ticks the
\* number of fetches issued is at most t + 1 and at least t/2 + 1/2.
C9_RotationCoverage ==
    /\ Cardinality(Codes) = Len(ALL_COUNTRIES)
    /\ \A k \in 1..Len(fetches) :
         fetches[k] = ALL_COUNTRIES[((k - 1) % Len(ALL_COUNTRIES)) + 1]
    /\ sched.currentCountryIndex = Len(fetches) % Len(ALL_COUNTRIES)
    /\ Len(fetches) <= sched.ticks + 1
    /\ sched.pc # "init" => 2 * Len(fetches) >= sched.ticks + 1
    /\ Len(fetches) >= Len(ALL_COUNTRIES) =>
         /\ {fetches[k] : k \in 1..Len(ALL_COUNTRIES)} = Codes
         /\ \A i, j \in 1..Len(ALL_COUNTRIES) : i # j => fetches[i] # fetches[j]

\* A full rotation has been issued, some fetch of it failed, and a tick was
\* skipped on the way.
C9_Witness ==
    /\ Len(fetches) = Len(ALL_COUNTRIES)
    /\ sched.failed
    /\ sched.ticks = Len(ALL_COUNTRIES)
    /\ \A country \in Codes : FetchesFor(country) = 1

\* The country code the cursor points at.
AtCursor == ALL_COUNTRIES[sched.currentCountryIndex + 1]

\* C19 as stated: on every timer tick of the News API source the rate-floor
\* guard (now - lastFetchAt >= 60 s) holds, so no tick is skipped.
C19_GuardHoldsOnEveryTick ==
    sched.pc = "newsapi" => sched.sinceNewsApi >= TickInterval

\* C19, amended: a tick whose guard holds triggers exactly one fetch, for the
\* country at the cursor, then moves the cursor one position on (modulo the
\* length of the rotation) and sets lastFetchAt to now; a tick whose guard
\* does not hold triggers no fetch and leaves cursor and lastFetchAt alone,
\* and the guard of the tick after it holds.
C19_TickFetchesOnceWhenFloorPassed ==
    [][sched.pc = "newsapi" =>
        IF sched.sinceNewsApi >= RateFloor
        THEN /\ fetches' = Append(fetches, AtCursor)
             /\ sched'.currentCountryIndex =
                    (sched.currentCountryIndex + 1) % Len(ALL_COUNTRIES)
             /\ sched'.sinceNewsApi = 0
        ELSE /\ fetches' = fetches
             /\ sched'.currentCountryIndex = sched.currentCountryIndex
             /\ sched'.sinceNewsApi = sched.sinceNewsApi
             /\ sched.sinceNewsApi + (TickInterval - 1) >= RateFloor]_vars

\* The first tick was skipped, the second fetched for the second country.
C19_Witness ==
    /\ sched.pc = "newsroom"
    /\ sched.ticks = 2
    /\ fetches = <<ALL_COUNTRIES[1], ALL_COUNTRIES[2]>>
    /\ sched.currentCountryIndex = 2
    /\ sched.sinceNewsApi = 0

C27_SchedulersAreIndependent ==
    [][/\ sched.pc = "newsroom" =>
            /\ sched'.currentCountryIndex = sched.currentCountryIndex
            /\ sched'.sinceNewsApi = sched.sinceNewsApi
            /\ sched'.failed = sched.failed
            /\ fetches' = fetches
            /\ sched'.sinceNewsroom =
                  IF sched.sinceNewsroom >= RateFloor THEN 0 ELSE sched.sinceNewsroom
            /\ sched'.pc = "wait"
       /\ sched.pc = "newsapi" =>
            /\ sched'.sinceNewsroom = sched.sinceNewsroom
            /\ sched'.newsroomFailed = sched.newsroomFailed
            /\ sched'.pc = "newsroom"]_vars

\* After a Newsroom fetch that failed, a News API tick has skipped while the
\* Newsroom tick of the same period fetched: the two rate floors differ.
C27_Witness ==
    /\ sched.pc = "wait"
    /\ sched.ticks >= 2
    /\ sched.newsroomFailed
    /\ sched.sinceNewsroom = 0
    /\ sched.sinceNewsApi > 0
    /\ sched.failed

\* C22: each scheduler fire starts one ingestion run: the step in which a
\* scheduler-triggered fetch returns raw articles hands them to the
\* ingestion pipeline (a run starts, or the table changes).
C22_FetchedArticlesAreIngested ==
    [][(Len(fetches') = Len(fetches) + 1 /\ sched'.returned # << >>)
          => (run' # run \/ articles' # articles)]_vars

-----------------------------------------------------------------------------
(* Claims about failures in the listing path and in the store methods *)

\* What went wrong on the way to the answer of the listing request.
Failures == req.timedOut

C25_SubQueryTimeouts ==
    req.pc = "done" =>
        /\ "count" \in Failures =>
              /\ req.result.articles = req.results
              /\ req.result.totalCount = Len(req.results)
              /\ Len(req.response.articles) = Len(req.results)
              /\ req.response.pagination.totalCount = Len(req.results)
              /\ req.response.pagination.totalPages
                    = Ceil(Len(req.results), req.pageSize)
              /\ req.status = 200
        /\ "articles" \in Failures =>
              /\ req.response.articles = << >>
              /\ req.response.pagination.totalCount = 0
              /\ req.response.pagination.totalPages = 0
              /\ req.status = 200

\* The count query ran into its timer after a page query that returned
\* fewer Articles than match.
C25_Witness ==
    /\ req.pc = "done"
    /\ "count" \in Failures
    /\ Len(req.response.articles) >= 1
    /\ CountQuery(req.country) > Len(req.response.articles)
    /\ req.response.pagination.totalCount = Len(req.response.articles)

\* C26: in DatabaseStorage.getArticles no promise raced against a timer
\* rejects with nothing awaiting it.
C26_NoUnhandledRejection == ~req.unhandled

-----------------------------------------------------------------------------
(* Claims about the storage interface *)

Absent(id, rows) == id \notin Ids(rows)

\* C12: updateArticle(id, ...) on an id no stored Article has fails with a
\* not-found error and leaves the table as it was, on either implementation.
C12_UpdateOfMissingIdFails ==
    (last.kind = "update" /\ Absent(last.id, last.before))
        => (~last.ok /\ articles = last.before)


Rows(store) == {store[i] : i \in 1..Len(store)}

\* C13: deleteArticle(id) is idempotent: on an id no stored Article has it
\* resolves and changes nothing, a second deleteArticle(id) right after the
\* first leaves the table the first one left, and no Article with another id
\* is ever removed.
C13_DeleteIsIdempotent ==
    last.kind = "delete" =>
        /\ Absent(last.id, last.before) => (last.ok /\ articles = last.before)
        /\ last.again => articles = last.before
        /\ Rows(articles) \subseteq Rows(last.before)
        /\ \A a \in Rows(last.before) : a.id # last.id => a \in Rows(articles)

\* A second delete of an id whose first delete removed a row, other rows left.
C13_Witness ==
    /\ last.kind = "delete" /\ last.again /\ last.ok
    /\ Len(last.firstBefore) = Len(last.before) + 1
    /\ articles = last.before
    /\ articles # << >>


\* C14: createArticle with a required field missing (title, originalContent,
\* summary, country, category, sourceApi) fails before anything is stored, on
\* either implementation; a successful createArticle returns an Article with
\* an id, a createdAt and no aiEnhancedContent.
C14_CreateValidatesRequiredFields ==
    last.kind = "create" =>
        IF NotNullOk(last.ins)
        THEN /\ last.ok
             /\ last.article.id \in Nat \ {0}
             /\ last.article.createdAt \in Nat
             /\ last.article.aiEnhancedContent = NULL
        ELSE ~last.ok /\ articles = last.before

\* C15: a successful createArticle takes an id no stored Article has (the
\* placeholders of MemStorage included), replaces no stored Article and makes
\* the table one Article longer.
C15_CreateAddsOneFreshArticle ==
    (last.kind = "create" /\ last.ok) =>
        /\ Absent(last.article.id, last.before)
        /\ Rows(last.before) \subseteq Rows(articles)
        /\ Len(articles) = Len(last.before) + 1


-----------------------------------------------------------------------------
(* Claims about failures inside an ingestion run *)

\* The items of the run that are still to be taken once the current one ends.
Pending(r) == IF r.item = NoEntry THEN r.left - 1 ELSE r.left

\* The item that has just ended met a failure: the enhancer threw, or a store
\* call was rejected.
ItemFailed == last' # last /\ (last'.enh = "throw" \/ last'.fault)

\* C16: within one ingestion run, an item that fails (enhancer error, store
\* error on the enhanced or on the fallback path) does not end the run: the
\* items after it are still processed, and what earlier items stored stays.
C16_FailedItemDoesNotEndTheRun ==
    [][(ItemFailed /\ Pending(run["w1"]) > 0)
          => /\ run'["w1"].kind = run["w1"].kind
             /\ run'["w1"].left = Pending(run["w1"])
             /\ Ids(articles) \subseteq Ids(articles')]_vars


\* generateArticleContent returned an object that lacks a field, for a raw
\* article the gate let through, and no store call was made to fail.
MalformedResponse ==
    /\ Quiet
    /\ last.kind = "seed"
    /\ last.enh \in {"empty", "partial"}
    /\ ~last.dup
    /\ ~last.fault

\* C17: an enhancer response that lacks enhancedTitle, articleContent or
\* summary is treated as an enhancer failure: the item takes the fallback
\* path, so the one Article stored for it has the raw title, the raw summary
\* and the cleaned raw content, and nothing taken from the response.
C17_MalformedResponseIsFailure ==
    MalformedResponse =>
        /\ OneStoredFor(last)
        /\ Stored(last.id).title = SeedTitle(last.raw)
        /\ Stored(last.id).aiEnhancedContent = SeedCleanContent(last.raw)
        /\ \A a \in Rows(articles) \ Rows(last.before) :
              a.title # GenNoContent.enhancedTitle


\* Two stored Articles that the uniqueness rule forbids side by side: the
\* same sourceUrl, or no sourceUrl on either and the same title.
Clash(a, b) ==
    IF ~Falsy(a.sourceUrl) /\ ~Falsy(b.sourceUrl) THEN a.sourceUrl = b.sourceUrl
    ELSE Falsy(a.sourceUrl) /\ Falsy(b.sourceUrl) /\ a.title = b.title

\* C18: after any sequence of ingestion operations run one at a time, the
\* table holds at most one Article per sourceUrl and, among the Articles
\* without a sourceUrl, at most one per exact title.
C18_ArticlesAreUnique ==
    (Quiet /\ last.kind \in {"none", "seed", "batch", "proxy"}) =>
        \A i, j \in 1..Len(articles) : i # j => ~Clash(articles[i], articles[j])


\* C23: processing one raw article creates at most one Article, whatever
\* fails on the way; in particular the fallback path creates none when the
\* create of the enhanced path has succeeded and its update has failed.
C23_AtMostOneArticlePerItem ==
    /\ last.kind = "seed" => last.created <= 1
    /\ \A w \in Workers : run[w].kind = "seed" => run[w].item.created <= 1

\* The step creates an Article under this id (currentArticleId++, or the
\* serial of the table).
CreatesId(id) == nextId' = nextId + 1 /\ id = nextId

\* C24: once an Article is created, the ingestion paths change nothing of it
\* but aiEnhancedContent: every step that does not create an Article under
\* its id leaves it as it is, or as it is up to aiEnhancedContent, in the
\* same place of the table, and the table loses no Article.
C24_OnlyEnhancedContentChanges ==
    [][/\ Len(articles') >= Len(articles)
       /\ \A i \in 1..Len(articles) :
            ~CreatesId(articles[i].id) =>
                articles'[i] = [articles[i] EXCEPT !.aiEnhancedContent =
                                                    articles'[i].aiEnhancedContent]]_vars

\* An update has set the aiEnhancedContent of the Article the last item
\* created, next to another stored Article.
C24_Witness ==
    /\ Quiet
    /\ last.kind = "seed"
    /\ last.created = 1 /\ last.updated = 1
    /\ Len(last.before) >= 1
    /\ Stored(last.id).aiEnhancedContent # NULL
    /\ Stored(last.id).title \in {SeedTitle(last.raw), GenOk.enhancedTitle}

-----------------------------------------------------------------------------
(* Claims about concurrent ingestion runs *)

\* The run is between the dedup gate and the end of its current item.
PastGate(w) ==
    run[w].kind = "seed" /\ run[w].pc \in {"enhance", "create", "update",
                                           "basicCreate", "basicUpdate"}

\* C21: the dedup check and the create that follows are separate awaited
\* steps.  A run is past the gate only if the table held no Article with the
\* url and none with the title when the run took the item; nothing keeps
\* another run from storing one before this run creates its own, so two runs
\* on the same raw article can both be past the gate and both create.
C21_GateThenCreateIsNotAtomic ==
    \A w \in Workers :
        PastGate(w) =>
            /\ ~Falsy(run[w].item.raw.url) =>
                    UrlCount(run[w].item.before, run[w].item.raw.url) = 0
            /\ TitleCount(run[w].item.before, SeedTitle(run[w].item.raw)) = 0

\* Both runs passed the gate for the same raw article, the enhancer answered
\* both in full, no store call failed, and each has created its Article.
C21_Witness ==
    /\ run["w1"].kind = "seed" /\ run["w2"].kind = "seed"
    /\ run["w1"].pc = "update" /\ run["w2"].pc = "update"
    /\ run["w1"].item.raw = run["w2"].item.raw
    /\ ~Falsy(run["w1"].item.raw.url)
    /\ run["w1"].item.enh = "ok" /\ run["w2"].item.enh = "ok"
    /\ ~run["w1"].item.fault /\ ~run["w2"].item.fault
    /\ run["w1"].item.created = 1 /\ run["w2"].item.created = 1
    /\ UrlCount(run["w1"].item.before, run["w1"].item.raw.url) = 0
    /\ UrlCount(articles, run["w1"].item.raw.url) = 2

-----------------------------------------------------------------------------
(* Claims about accounts *)

\* A step of one auth route: `last` is its record and no time passes in it.
AuthStep(kind) == last'.kind = kind /\ clock' = clock

\* C28: login(email, p) succeeds exactly when a user with that email exists,
\* is verified, and p is the password last set for that user by registration
\* or by a successful resetPassword, in both stores.
C28_LoginIffCredentials ==
    last.kind = "login" =>
        (last.ok <=> /\ getUserByEmail(users, last.email) # 0
                     /\ users[getUserByEmail(users, last.email)].isVerified
                     /\ <<last.email, last.password>> \in auth.lastSet)

\* C29: verifyEmail succeeds only for a token stored on a user and not
\* expired; it then sets isVerified and clears the token, so no token
\* verifies twice; a refused verifyEmail changes no user; a resend is
\* refused for a verified user and otherwise replaces the token, and a
\* replaced token never verifies.
C29_VerificationTokenVerifiesOnce ==
    [][/\ AuthStep("verify") =>
            /\ last'.ok =>
                 /\ \E i \in 1..Len(users) :
                      /\ users[i].verificationToken = last'.token
                      /\ clock <= users[i].verificationTokenExpiry
                      /\ users'[i].isVerified
                      /\ \A j \in 1..Len(users) \ {i} : users'[j] = users[j]
                 /\ \A j \in 1..Len(users') : users'[j].verificationToken # last'.token
                 /\ last'.token \notin auth.verified
                 /\ last'.token \notin auth.replaced
            /\ ~last'.ok => users' = users
       /\ AuthStep("resend") =>
            LET i == getUserByEmail(users, last'.email)
            IN /\ (i = 0 \/ users[i].isVerified) => (~last'.ok /\ users' = users)
               /\ (i # 0 /\ ~users[i].isVerified) =>
                    /\ users'[i].verificationToken = last'.token
                    /\ \A j \in 1..Len(users') :
                         users'[j].verificationToken # users[i].verificationToken]_vars

\* A token verified, a second verifyEmail with it was refused, and before
\* that a resend had replaced the token of the registration.
C29_Witness ==
    /\ last.kind = "verify"
    /\ ~last.ok
    /\ last.token \in auth.verified
    /\ auth.replaced # {}
    /\ \E i \in 1..Len(users) : users[i].email = "reader@example.com" /\ users[i].isVerified

\* C30: resetPassword succeeds only with the reset token stored on a user,
\* which is the one issued last for that user, and not after its expiry; it
\* then stores the new password and clears the token, so no token resets
\* twice; a refused resetPassword changes no user.
C30_ResetTokenIsSingleUse ==
    [][AuthStep("reset") =>
         /\ last'.ok =>
              /\ \E i \in 1..Len(users) :
                   /\ users[i].resetPasswordToken = last'.token
                   /\ clock <= users[i].resetPasswordExpiry
                   /\ users'[i] = [users[i] EXCEPT !.password = BcryptHash(last'.password),
                                                   !.resetPasswordToken = 0,
                                                   !.resetPasswordExpiry = 0]
                   /\ \A j \in 1..Len(users) \ {i} : users'[j] = users[j]
              /\ last'.token \notin auth.used
              /\ last'.token \notin auth.superseded
         /\ ~last'.ok => users' = users]_vars

\* A token reset the password, a second resetPassword with it and a valid
\* password was refused, and before that a later request had replaced an
\* earlier token.
C30_Witness ==
    /\ last.kind = "reset"
    /\ ~last.ok
    /\ passwordRegex(last.password)
    /\ last.token \in auth.used
    /\ auth.superseded # {}
    /\ \E i \in 1..Len(users) :
         users[i].email = "reader@example.com" /\ users[i].password = BcryptHash("N3wSecret#")

=============================================================================
